---- MODULE Spec2Model ----
(***************************************************************************)
(* Model of the newsletter-digest pipeline: similarity clustering          *)
(* (processing/cluster.js), article selection and per-cluster generation   *)
(* calls (ai/gemini.js), the retry helper (utils/helpers.js) and the two   *)
(* orchestration loops (index.js).                                         *)
(*                                                                         *)
(* Three specifications share the variables:                               *)
(*   SpecCluster  clusterArticles on every bounded input and every         *)
(*                assignment vector the k-means library may return;        *)
(*   SpecSelect   selectTopArticles / selectBestOfWeek on every bounded    *)
(*                pool and every modelled response of the generation       *)
(*                service;                                                 *)
(*   Spec         the pipeline run of index.js (cluster summaries) and of  *)
(*                the older orchestration (curation).                      *)
(***************************************************************************)
EXTENDS Integers, Sequences, FiniteSets, TLC

VARIABLES
    \* ---- clusterArticles (SpecCluster)
    embeddedArticles,   \* the list given to clusterArticles
    k,                  \* the requested number of clusters
    clusterOut,         \* NoValue, or the value clusterArticles returned
    mergedOut,          \* NoValue, or [list |-> the array that
                        \* mergeMiscellaneousClusters returned]
    \* ---- selectTopArticles / selectBestOfWeek (SpecSelect)
    selFn,              \* "top" or "best"
    allArticles,        \* the pool given to the selection function
    count,              \* selectTopArticles' count (5 for selectBestOfWeek)
    attempt,            \* withRetry's attempt counter
    selPc,              \* "start", "calling", "returned", "raised"
    response,           \* the response text the parse step worked on
    selection,          \* NoValue, or the returned {selected, reasoning}
    \* ---- run (Spec)
    variant,            \* "summary": run of index.js; "curate": the older run
    pc,                 \* the step run is at
    runArticles,        \* articles: processEmails' result
    CLUSTER_COUNT,      \* configured number of clusters
    TOP_ARTICLES_COUNT, \* configured number of top articles
    clusters,           \* clusterArticles' clusters (merged, in the older run)
    topSelection,       \* selectTopArticles' / selectBestOfWeek's result
    clusterIdx,         \* position of the cluster loop
    clusterSummaries,   \* clusterSummaries / curatedMain
    curatedMisc,        \* NoValue, or curateMiscCluster's result
    requests,           \* the prompts submitted to model.generateContent
    digestCalls,        \* number of writeDeepAnalysis / writeDigest calls
    published,          \* number of publishToNotion calls
    runError,           \* NoValue, or the error run rethrew
    \* ---- getCurationStrategy (SpecStrategy)
    strategyCount,      \* articleCount
    strategyOut,        \* NoValue, or the returned strategy
    \* ---- withRetry (SpecRetry)
    maxRetries,         \* withRetry's argument
    baseDelay,          \* withRetry's argument, in ms
    retryAttempt,       \* the loop variable attempt
    retryPc,            \* "idle", "loop", "returned", "raised"
    fnResults,          \* how each invocation of fn ended, in order
    retryDelays,        \* the sleeps of the loop, in order
    lastError,          \* NoValue (undefined), or the last error caught
    retryResult,        \* NoValue, or what withRetry returned or raised
    \* ---- generateEmbeddings (SpecEmbed)
    embArticles,        \* the argument articles
    batchIndex,         \* the loop variable i (0-based)
    results,            \* results: {article, embedding} of the embedded articles
    failed,             \* failed: ids of the articles of the failed batches
    embLog,             \* the lines written with log()
    embEvents,          \* submissions to the embeddings API and sleeps, in order
    embPc,              \* "idle", "loop", "returned", "raised"
    embReturn,          \* NoValue, or the returned array or the error
    \* ---- assembleDigest (SpecDigest)
    digestVariant,      \* which file's assembleDigest is called
    digestDeep,         \* the argument deepAnalysis, as its lines
    digestSummaries,    \* the argument clusterSummaries
    digestMeta,         \* the argument metadata
    digestPc,           \* "idle", "called", "returned"
    digestOut,          \* the returned text, as its parts in order
    \* ---- splitForNotion (SpecSplit)
    splitText,          \* the argument text, as its characters
    splitMax,           \* the argument maxLength
    remaining,          \* the local remaining
    chunks,             \* the local chunks
    splitPc             \* "idle", "loop", "returned"

cvars == <<embeddedArticles, k, clusterOut, mergedOut>>
svars == <<selFn, allArticles, count, attempt, selPc, response, selection>>
rvars == <<variant, pc, runArticles, CLUSTER_COUNT, TOP_ARTICLES_COUNT, clusters,
           topSelection, clusterIdx, clusterSummaries, curatedMisc, requests,
           digestCalls, published, runError>>
tvars == <<strategyCount, strategyOut>>
wvars == <<maxRetries, baseDelay, retryAttempt, retryPc, fnResults, retryDelays,
           lastError, retryResult>>
evars == <<embArticles, batchIndex, results, failed, embLog, embEvents, embPc,
           embReturn>>
dvars == <<digestVariant, digestDeep, digestSummaries, digestMeta, digestPc,
           digestOut>>
nvars == <<splitText, splitMax, remaining, chunks, splitPc>>
uvars == <<tvars, wvars, evars, dvars, nvars>>
vars == <<cvars, svars, rvars, uvars>>

NoValue == [none |-> TRUE]

(***************************************************************************)
(* Bounds of the model and constants of the program.                       *)
(***************************************************************************)
MaxArticles == 5            \* clusterArticles gets 0..MaxArticles articles, or 6 or 7
MaxK == 3                   \* k ranges over 1..MaxK and the two k below
MAIN_CLUSTER_THRESHOLD == 5
DEFAULT_CLUSTER_COUNT == 8
MaxPool == 3                \* selectTopArticles gets 0..MaxPool articles
MaxCount == 2               \* selectTopArticles' count ranges over 1..MaxCount
MaxIdx == 2                 \* longest index list of a parsed response
MaxPre == 1                 \* most bare integers ahead of the JSON object
BEST_OF_COUNT == 5          \* selectBestOfWeek's fixed bound
MAX_RETRIES == 3            \* withRetry(fn, 3, 2000)
RETRY_BASE_DELAY == 2000    \* withRetry(fn, 3, 2000)
MaxRunArticles == 3         \* run extracts 1..MaxRunArticles articles, or 4, or 6..9
MaxRunK == 2                \* CLUSTER_COUNT ranges over 1..MaxRunK and 12
MaxRunIdx == 2              \* a run's selection reply lists at most MaxRunIdx indices
MaxArticleCount == 60       \* getCurationStrategy gets 0..MaxArticleCount
MaxRetriesArg == 4          \* withRetry's maxRetries ranges over 0..MaxRetriesArg
MaxEmbArticles == 2         \* generateEmbeddings gets 0..MaxEmbArticles articles, or
                            \* a list that fills one, two or three batches
BATCH_SIZE == 20            \* embed.js
EMBED_BASE_DELAY == 1000    \* withRetry(() => embedBatch(texts), 3, 1000)
BATCH_PAUSE == 200          \* sleep(200) between batches
MISC_PASSTHROUGH_MAX == 3   \* curateMiscCluster: articles.length <= 3
LIGHT_MIN == 3              \* getCurationStrategy: articleCount >= 3
INDEX_CLUSTER_COUNT == 12   \* CLUSTER_COUNT's default in index.js

Range(s) == {s[i] : i \in DOMAIN s}

Min(a, b) == IF a <= b THEN a ELSE b

\* Array.prototype.slice(0, n) for n >= 0
SliceTo(s, n) == SubSeq(s, 1, Min(n, Len(s)))

(***************************************************************************)
(* processing/cluster.js                                                   *)
(***************************************************************************)

\* An article is a record; key stands for its content (subject and text),
\* id is generateArticleId's hash, which two articles may share.
Article(key, id, wc) == [key |-> key, id |-> id, wordCount |-> wc]

\* The keys of the grouping Map, in insertion order: the labels of the
\* assignment vector in the order of their first occurrence.
RECURSIVE clusterGroupKeys(_, _, _)
clusterGroupKeys(assign, i, acc) ==
    IF i > Len(assign) THEN acc
    ELSE clusterGroupKeys(assign, i + 1,
            IF assign[i] \in Range(acc) THEN acc ELSE Append(acc, assign[i]))

\* clusterGroups.get(label): the articles pushed for that label, in input order.
RECURSIVE clusterGroupArticles(_, _, _, _, _)
clusterGroupArticles(embedded, assign, label, i, acc) ==
    IF i > Len(assign) THEN acc
    ELSE clusterGroupArticles(embedded, assign, label, i + 1,
            IF assign[i] = label THEN Append(acc, embedded[i].article) ELSE acc)

\* Array.from(clusterGroups.entries()).map(...)
clusterEntries(embedded, assign) ==
    LET keys == clusterGroupKeys(assign, 1, <<>>)
    IN  [j \in 1..Len(keys) |->
            LET arts == clusterGroupArticles(embedded, assign, keys[j], 1, <<>>)
            IN  [originalId |-> keys[j], articles |-> arts, size |-> Len(arts)]]

\* One insertion of a stable sort under the comparator (a, b) => b.size - a.size:
\* x goes behind every element that does not compare after it.
InsertBySizeMutant(sorted, x) ==
    LET ahead == Cardinality({j \in DOMAIN sorted : sorted[j].size > x.size})
    IN  SubSeq(sorted, 1, ahead) \o <<x>> \o SubSeq(sorted, ahead + 1, Len(sorted))

InsertBySize(sorted, x) ==
    LET ahead == Cardinality({j \in DOMAIN sorted : sorted[j].size >= x.size})
    IN  SubSeq(sorted, 1, ahead) \o <<x>> \o SubSeq(sorted, ahead + 1, Len(sorted))

\* .sort((a, b) => b.size - a.size); Array.prototype.sort is stable.
RECURSIVE sortBySize(_, _, _)
sortBySize(entries, i, acc) ==
    IF i > Len(entries) THEN acc
    ELSE sortBySize(entries, i + 1, InsertBySize(acc, entries[i]))

clusterTypeMutant(index) ==
    IF index <= MAIN_CLUSTER_THRESHOLD THEN "main" ELSE "miscellaneous"

\* index < MAIN_CLUSTER_THRESHOLD ? 'main' : 'miscellaneous' (index is 0-based)
clusterType(index) ==
    IF index < MAIN_CLUSTER_THRESHOLD THEN "main" ELSE "miscellaneous"

\* The branch for embeddedArticles.length <= k: one cluster per article.
singletonClustersMutant(embedded) ==
    [clusters |-> [i \in 1..Len(embedded) |->
                    [id |-> i - 1,
                     articles |-> <<embedded[Len(embedded) + 1 - i].article>>,
                     type |-> clusterType(i - 1)]],
     assignments |-> [i \in 1..Len(embedded) |-> i - 1]]

singletonClusters(embedded) ==
    [clusters |-> [i \in 1..Len(embedded) |->
                    [id |-> i - 1,
                     articles |-> <<embedded[i].article>>,
                     type |-> clusterType(i - 1)]],
     assignments |-> [i \in 1..Len(embedded) |-> i - 1]]

\* The general branch, given result.clusters of the k-means library.
groupedClustersMutant(embedded, assign) ==
    LET sorted == sortBySize(clusterEntries(embedded, SliceTo(assign, Len(assign) - 1)),
                             1, <<>>)
    IN  [clusters |-> [i \in 1..Len(sorted) |->
                        [id |-> i - 1,
                         originalId |-> sorted[i].originalId,
                         articles |-> sorted[i].articles,
                         type |-> clusterType(i - 1),
                         size |-> sorted[i].size]],
         assignments |-> assign]

groupedClusters(embedded, assign) ==
    LET sorted == sortBySize(clusterEntries(embedded, assign), 1, <<>>)
    IN  [clusters |-> [i \in 1..Len(sorted) |->
                        [id |-> i - 1,
                         originalId |-> sorted[i].originalId,
                         articles |-> sorted[i].articles,
                         type |-> clusterType(i - 1),
                         size |-> sorted[i].size]],
         assignments |-> assign]

\* What kmeans(normalizedData, k, ...) may return as result.clusters: one
\* label in 0..k-1 per data point.  The library is outside the repository,
\* so every such vector is possible.
kmeansClusters(n, kk) == [1..n -> 0..(kk - 1)]

\* The k given to clusterArticles in the model.
ClusterCounts ==
    ((0 - 1)..MaxK) \cup {MAIN_CLUSTER_THRESHOLD + 1, DEFAULT_CLUSTER_COUNT}

\* The input list of length n: distinct articles whose keys differ from their
\* positions.
EmbeddedInput(n) == [i \in 1..n |-> [article |-> Article(n + 1 - i, n + 1 - i, 1)]]

(***************************************************************************)
(* ai/gemini.js: selectTopArticles and selectBestOfWeek                    *)
(***************************************************************************)

\* allArticles[i] for an i that is no index of the array
Undefined == [key |-> -1, id |-> -1, wordCount |-> -1]

\* The elements a parsed index list may hold.
Num(v) == [t |-> "num", v |-> v]        \* the integer v
Frac(v) == [t |-> "frac", v |-> v]      \* the number v + 0.5
Str(v) == [t |-> "str", v |-> v]        \* the decimal string of the integer v >= 0
Null == [t |-> "null", v |-> 0]         \* null
Word == [t |-> "word", v |-> 0]         \* a string that is no number
NaN == [t |-> "nan", v |-> 0]

\* The value of a field of the parsed object: missing, a list, or a truthy
\* value that is no array (a number, a string, an object).
Absent == [kind |-> "absent", items |-> <<>>]
NotArray == [kind |-> "notarray", items |-> <<>>]
List(items) == [kind |-> "list", items |-> items]

\* A response text: the bare integers ahead of the first brace, and what the
\* brace-delimited substring is: missing ("none"), not parseable ("invalid"),
\* or an object with the fields selected and indices.
Response(pre, json, sel, ind) ==
    [pre |-> pre, json |-> json, selected |-> sel, indices |-> ind]

\* i >= 0 && i < allArticles.length, for a number
validIndex(i, n) ==
    CASE i.t = "num" -> i.v >= 0 /\ i.v < n
      [] i.t = "frac" -> i.v >= 0 /\ i.v < n
      [] OTHER -> FALSE

\* allArticles[i] for a number i that passed validIndex (arrays are 0-based,
\* sequences 1-based)
articleAt(articles, i) ==
    IF i.t = "num" THEN articles[i.v + 1] ELSE Undefined

\* typeof i === 'number' ? (i > allArticles.length ? i - 1 : i) : parseInt(i) - 1
coerceIndex(i, n) ==
    CASE i.t = "num" -> IF i.v > n THEN Num(i.v - 1) ELSE Num(i.v)
      [] i.t = "frac" -> IF i.v >= n THEN Frac(i.v - 1) ELSE Frac(i.v)
      [] i.t = "str" -> Num(i.v - 1)
      [] OTHER -> NaN

\* parsed.selected || parsed.indices || []
indexField(resp) ==
    IF resp.selected.kind /= "absent" THEN resp.selected
    ELSE IF resp.indices.kind /= "absent" THEN resp.indices
    ELSE List(<<>>)

\* The JSON tier of selectTopArticles: map, filter, slice, map.
topJsonSelected(articles, c, items) ==
    LET n == Len(articles)
        coerced == [j \in 1..Len(items) |-> coerceIndex(items[j], n)]
        valid == SelectSeq(coerced, LAMBDA i : validIndex(i, n))
        kept == SliceTo(valid, c)
    IN  [j \in 1..Len(kept) |-> articleAt(articles, kept[j])]

\* The digits a list element contributes to result.match(/\b(\d{1,3})\b/g).
elementNumbers(e) ==
    CASE e.t = "num" -> <<IF e.v < 0 THEN -e.v ELSE e.v>>
      [] e.t = "frac" -> <<e.v, 5>>
      [] e.t = "str" -> <<e.v>>
      [] OTHER -> <<>>

RECURSIVE itemNumbers(_, _)
itemNumbers(items, i) ==
    IF i > Len(items) THEN <<>> ELSE elementNumbers(items[i]) \o itemNumbers(items, i + 1)

\* result.match(/\b(\d{1,3})\b/g): the integers of the whole text, in order.
textNumbers(resp) ==
    resp.pre \o (IF resp.json = "object"
                 THEN itemNumbers(resp.selected.items, 1) \o itemNumbers(resp.indices.items, 1)
                 ELSE <<>>)

\* The integer tier of selectTopArticles: parseInt(n) - 1, filter, slice.
topNumberIndices(articles, c, numbers) ==
    LET n == Len(articles)
        shifted == [j \in 1..Len(numbers) |-> Num(numbers[j] - 1)]
    IN  SliceTo(SelectSeq(shifted, LAMBDA i : validIndex(i, n)), c)

\* An insertion that puts x ahead of the articles with its word count.
insertByWordCountMutant(sorted, x) ==
    LET ahead == Cardinality({j \in DOMAIN sorted : sorted[j].wordCount > x.wordCount})
    IN  SubSeq(sorted, 1, ahead) \o <<x>> \o SubSeq(sorted, ahead + 1, Len(sorted))

\* One insertion of the stable sort under (a, b) => b.wordCount - a.wordCount.
insertByWordCount(sorted, x) ==
    LET ahead == Cardinality({j \in DOMAIN sorted : sorted[j].wordCount >= x.wordCount})
    IN  SubSeq(sorted, 1, ahead) \o <<x>> \o SubSeq(sorted, ahead + 1, Len(sorted))

\* [...allArticles].sort((a, b) => b.wordCount - a.wordCount)
RECURSIVE sortByWordCount(_, _, _)
sortByWordCount(articles, i, acc) ==
    IF i > Len(articles) THEN acc
    ELSE sortByWordCount(articles, i + 1, insertByWordCount(acc, articles[i]))

fallbackSelection(articles, c) ==
    [selected |-> SliceTo(sortByWordCount(articles, 1, <<>>), c),
     reasoning |-> "fallback"]

\* selectTopArticles from the response text on: the try block and the fallback.
\* JSON.parse of an invalid substring and .map on a value that is no array
\* throw, and the catch leads to the fallback.
selectTopParse(articles, c, resp) ==
    LET field == indexField(resp)
        jsonSel == topJsonSelected(articles, c, field.items)
        numbers == textNumbers(resp)
        numIdx == topNumberIndices(articles, c, numbers)
    IN  IF resp.json = "invalid" THEN fallbackSelection(articles, c)
        ELSE IF resp.json = "object" /\ field.kind = "notarray"
                THEN fallbackSelection(articles, c)
        ELSE IF resp.json = "object" /\ Len(jsonSel) > 0
                THEN [selected |-> jsonSel, reasoning |-> "json"]
        ELSE IF Len(numbers) > 0 /\ Len(numIdx) > 0
                THEN [selected |-> [j \in 1..Len(numIdx) |-> articleAt(articles, numIdx[j])],
                      reasoning |-> "text"]
        ELSE fallbackSelection(articles, c)

\* i >= 0 && i < allArticles.length on the raw element: a string and null are
\* converted to numbers by the comparison.
bestValidIndex(i, n) ==
    CASE i.t \in {"num", "frac", "str"} -> i.v >= 0 /\ i.v < n
      [] i.t = "null" -> 0 < n
      [] OTHER -> FALSE

\* allArticles[i] on the raw element: the property named by its string form.
bestArticleAt(articles, i) ==
    IF i.t \in {"num", "str"} THEN articles[i.v + 1] ELSE Undefined

\* selectBestOfWeek from the response text on.
selectBestParse(articles, resp) ==
    LET field == indexField(resp)
        n == Len(articles)
        valid == SelectSeq(field.items, LAMBDA i : bestValidIndex(i, n))
        selected == [j \in 1..Len(valid) |-> bestArticleAt(articles, valid[j])]
    IN  IF resp.json = "invalid" THEN fallbackSelection(articles, BEST_OF_COUNT)
        ELSE IF resp.json = "object" /\ field.kind = "notarray"
                THEN fallbackSelection(articles, BEST_OF_COUNT)
        ELSE IF resp.json = "object"
                THEN [selected |-> SliceTo(selected, BEST_OF_COUNT), reasoning |-> "json"]
        ELSE fallbackSelection(articles, BEST_OF_COUNT)

smallPoolSelection(articles) == [selected |-> articles, reasoning |-> "small"]

(***************************************************************************)
(* processing/cluster.js: labels and the merge of miscellaneous clusters   *)
(***************************************************************************)

\* generateClusterLabel: the three most frequent words of the members' text,
\* ties in order of first occurrence, or "Topic id+1" when no word is left.
\* An article's text is one word of its own here (its key).
generateClusterLabel(cluster) ==
    LET words == [i \in 1..Len(cluster.articles) |-> cluster.articles[i].key]
    IN  [words |-> SliceTo(words, 3),
         topic |-> IF Len(words) = 0 THEN cluster.id + 1 ELSE 0]

\* cluster.label = generateClusterLabel(cluster)
labelled(cluster) ==
    [id |-> cluster.id, articles |-> cluster.articles, type |-> cluster.type,
     label |-> generateClusterLabel(cluster)]

\* 'Long Tail / Miscellaneous'
LongTailLabel == [words |-> <<>>, topic |-> 0]

\* A plausible slip: the later misc clusters' articles put first.
RECURSIVE flatMapArticlesMutant(_, _)
flatMapArticlesMutant(cs, i) ==
    IF i > Len(cs) THEN <<>> ELSE flatMapArticlesMutant(cs, i + 1) \o cs[i].articles

\* miscClusters.flatMap(c => c.articles)
RECURSIVE flatMapArticles(_, _)
flatMapArticles(cs, i) ==
    IF i > Len(cs) THEN <<>> ELSE cs[i].articles \o flatMapArticles(cs, i + 1)

mergeMiscellaneousClusters(cs) ==
    LET mainClusters == SelectSeq(cs, LAMBDA c : c.type = "main")
        miscClusters == SelectSeq(cs, LAMBDA c : c.type = "miscellaneous")
        miscArticles == flatMapArticles(miscClusters, 1)
    IN  IF Len(miscClusters) = 0 THEN mainClusters
        ELSE Append(mainClusters,
                    [id |-> Len(mainClusters), articles |-> miscArticles,
                     type |-> "miscellaneous", size |-> Len(miscArticles),
                     label |-> LongTailLabel])

(***************************************************************************)
(* ai/gemini.js: the per-cluster generation calls                          *)
(***************************************************************************)

\* A plausible slip: the thresholds compared with > in place of >=.
getCurationStrategyMutant(articleCount) ==
    IF articleCount > 30
    THEN [strategy |-> "heavy", keepFull |-> 2, synthesize |-> TRUE]
    ELSE IF articleCount > 10
    THEN [strategy |-> "moderate", keepFull |-> 4, synthesize |-> TRUE]
    ELSE IF articleCount > 3
    THEN [strategy |-> "light", keepFull |-> articleCount - 1, synthesize |-> FALSE]
    ELSE [strategy |-> "passthrough", keepFull |-> articleCount, synthesize |-> FALSE]

getCurationStrategy(articleCount) ==
    IF articleCount >= 30
    THEN [strategy |-> "heavy", keepFull |-> 2, synthesize |-> TRUE]
    ELSE IF articleCount >= 10
    THEN [strategy |-> "moderate", keepFull |-> 4, synthesize |-> TRUE]
    ELSE IF articleCount >= 3
    THEN [strategy |-> "light", keepFull |-> articleCount - 1, synthesize |-> FALSE]
    ELSE [strategy |-> "passthrough", keepFull |-> articleCount, synthesize |-> FALSE]

\* formatArticle(article, index): the block "### Article {index + 1}: subject
\* ... content"; the article's id is not part of it.
formatArticle(article, index) ==
    [heading |-> index + 1, subject |-> article.key, wordCount |-> article.wordCount]

\* formatArticlesForAI(articles): articles.map((article, i) => block).join
formatArticlesForAI(arts) ==
    [i \in 1..Len(arts) |->
        [heading |-> i, subject |-> arts[i].key, wordCount |-> arts[i].wordCount]]

\* The prompt of curateMainCluster: the template with its placeholders filled.
mainClusterPrompt(cluster, clusterLabel) ==
    LET strategy == getCurationStrategy(Len(cluster.articles))
    IN  [template |-> "gemini-main-cluster",
         CLUSTER_LABEL |-> clusterLabel,
         ARTICLE_COUNT |-> Len(cluster.articles),
         STRATEGY |-> strategy.strategy,
         KEEP_FULL |-> strategy.keepFull,
         ARTICLES |-> formatArticlesForAI(cluster.articles)]

\* A plausible slip: a cluster of three articles is sent to the service.
curateMiscStrategyMutant(articleCount) ==
    IF articleCount = 0 THEN "none"
    ELSE IF articleCount < MISC_PASSTHROUGH_MAX THEN "passthrough"
    ELSE "misc"

\* What curateMiscCluster does with a cluster of articleCount articles: the
\* empty result without a strategy ("none"), the cluster handed through, or
\* the generation request.
curateMiscStrategy(articleCount) ==
    IF articleCount = 0 THEN "none"
    ELSE IF articleCount <= MISC_PASSTHROUGH_MAX THEN "passthrough"
    ELSE "misc"

\* The prompt of curateMiscCluster.
miscClusterPrompt(cluster) ==
    [template |-> "gemini-misc-cluster",
     ARTICLE_COUNT |-> Len(cluster.articles),
     ARTICLES |-> formatArticlesForAI(cluster.articles)]

\* A plausible slip: the summary prompt formats the run's whole article list.
clusterSummaryPromptMutant(cluster, clusterLabel) ==
    [template |-> "gemini-cluster-summary",
     CLUSTER_LABEL |-> clusterLabel,
     ARTICLE_COUNT |-> Len(cluster.articles),
     ARTICLES |-> [i \in 1..Len(runArticles) |-> formatArticle(runArticles[i], i - 1)]]

\* The prompt of writeClusterSummary.
clusterSummaryPrompt(cluster, clusterLabel) ==
    [template |-> "gemini-cluster-summary",
     CLUSTER_LABEL |-> clusterLabel,
     ARTICLE_COUNT |-> Len(cluster.articles),
     ARTICLES |-> [i \in 1..Len(cluster.articles) |->
                    formatArticle(cluster.articles[i], i - 1)]]

\* How a withRetry(fn, maxRetries, ...) call ends: fn succeeded in one of the
\* attempts, or failed in all of them.
withRetryOutcomes(retries) ==
    {[ok |-> TRUE, tries |-> t] : t \in 1..retries}
        \cup {[ok |-> FALSE, tries |-> retries]}

\* withRetry(fn, 3, 2000) when fn failed in every attempt.
retriesExhausted == [ok |-> FALSE, tries |-> MAX_RETRIES]

\* A plausible slip: a delay that grows by baseDelay per attempt.
retryDelayMutant(base, failedAttempt) == base * (failedAttempt + 1)

\* baseDelay * Math.pow(2, attempt): the wait after the failed attempt
\* (attempts counted from 0).
retryDelay(base, failedAttempt) == base * (2 ^ failedAttempt)

\* A plausible slip: the loop goes on after fn succeeded.
submissionsMutant(fn, idx, cluster, prompt, o) ==
    [t \in 1..MAX_RETRIES |->
        [fn |-> fn, idx |-> idx, passed |-> cluster.articles, prompt |-> prompt,
         attempt |-> t, ok |-> o.ok /\ t = o.tries,
         waited |-> IF t = 1 THEN 0 ELSE retryDelay(RETRY_BASE_DELAY, t - 2)]]

\* The log entries of one withRetry(fn, 3, 2000) call with outcome o: the same
\* prompt once per attempt, with the attempt's number, whether it succeeded
\* and the wait ahead of it.
submissions(fn, idx, cluster, prompt, o) ==
    [t \in 1..o.tries |->
        [fn |-> fn, idx |-> idx, passed |-> cluster.articles, prompt |-> prompt,
         attempt |-> t, ok |-> o.ok /\ t = o.tries,
         waited |-> IF t = 1 THEN 0 ELSE retryDelay(RETRY_BASE_DELAY, t - 2)]]

(***************************************************************************)
(* index.js: run                                                           *)
(***************************************************************************)

\* A plausible slip: the exclusion is not applied.
excludeTopArticlesMutant(clusterArts, selected) == clusterArts

\* topArticleIds = new Set(selected.map(a => a.id));
\* cluster.articles.filter(a => !topArticleIds.has(a.id))
excludeTopArticles(clusterArts, selected) ==
    LET topArticleIds == {selected[i].id : i \in DOMAIN selected}
    IN  SelectSeq(clusterArts, LAMBDA a : a.id \notin topArticleIds)

InitClusterIdle ==
    /\ embeddedArticles = <<>>
    /\ k = 1
    /\ clusterOut = NoValue
    /\ mergedOut = NoValue

InitSelectIdle ==
    /\ selFn = "top"
    /\ allArticles = <<>>
    /\ count = 1
    /\ attempt = 0
    /\ selPc = "idle"
    /\ response = NoValue
    /\ selection = NoValue

\* The lengths of the input: the short ones, and the two that give one and
\* two clusters beyond the main threshold.
InputLengths ==
    (0..MaxArticles) \cup {MAIN_CLUSTER_THRESHOLD + 1, MAIN_CLUSTER_THRESHOLD + 2}

InitRunIdle ==
    /\ variant = "summary"
    /\ pc = "idle"
    /\ runArticles = <<>>
    /\ CLUSTER_COUNT = 1
    /\ TOP_ARTICLES_COUNT = 1
    /\ clusters = <<>>
    /\ topSelection = NoValue
    /\ clusterIdx = 1
    /\ clusterSummaries = <<>>
    /\ curatedMisc = NoValue
    /\ requests = <<>>
    /\ digestCalls = 0
    /\ published = 0
    /\ runError = NoValue

InitStrategyIdle ==
    /\ strategyCount = 0
    /\ strategyOut = NoValue

InitRetryIdle ==
    /\ maxRetries = 0
    /\ baseDelay = 0
    /\ retryAttempt = 0
    /\ retryPc = "idle"
    /\ fnResults = <<>>
    /\ retryDelays = <<>>
    /\ lastError = NoValue
    /\ retryResult = NoValue

InitEmbedIdle ==
    /\ embArticles = <<>>
    /\ batchIndex = 0
    /\ results = <<>>
    /\ failed = <<>>
    /\ embLog = <<>>
    /\ embEvents = <<>>
    /\ embPc = "idle"
    /\ embReturn = NoValue

InitDigestIdle ==
    /\ digestVariant = "claude.js"
    /\ digestDeep = <<>>
    /\ digestSummaries = <<>>
    /\ digestMeta = [dateRange |-> 0, totalArticles |-> 0]
    /\ digestPc = "idle"
    /\ digestOut = <<>>

InitSplitIdle ==
    /\ splitText = <<>>
    /\ splitMax = 0
    /\ remaining = <<>>
    /\ chunks = <<>>
    /\ splitPc = "idle"

InitUtilIdle ==
    /\ InitStrategyIdle
    /\ InitRetryIdle
    /\ InitEmbedIdle
    /\ InitDigestIdle
    /\ InitSplitIdle

InitCluster ==
    /\ \E n \in InputLengths : embeddedArticles = EmbeddedInput(n)
    /\ k \in ClusterCounts
    /\ clusterOut = NoValue
    /\ mergedOut = NoValue
    /\ InitSelectIdle
    /\ InitRunIdle
    /\ InitUtilIdle

\* clusterArticles, empty input
ClusterEmpty ==
    /\ clusterOut = NoValue
    /\ Len(embeddedArticles) = 0
    /\ clusterOut' = [clusters |-> <<>>, assignments |-> <<>>]
    /\ UNCHANGED <<embeddedArticles, k, mergedOut, svars, rvars, uvars>>

\* clusterArticles, no more articles than clusters
ClusterSingletons ==
    /\ clusterOut = NoValue
    /\ Len(embeddedArticles) > 0
    /\ Len(embeddedArticles) <= k
    /\ clusterOut' = singletonClusters(embeddedArticles)
    /\ UNCHANGED <<embeddedArticles, k, mergedOut, svars, rvars, uvars>>

\* clusterArticles, general path
ClusterKMeans ==
    /\ clusterOut = NoValue
    /\ Len(embeddedArticles) > k
    /\ k > 0
    /\ \E assign \in kmeansClusters(Len(embeddedArticles), k) :
          clusterOut' = groupedClusters(embeddedArticles, assign)
    /\ UNCHANGED <<embeddedArticles, k, mergedOut, svars, rvars, uvars>>

\* clusterArticles, a non-empty list and k <= 0: the length test
\* embeddedArticles.length <= k is false and nothing else looks at k, so the
\* call kmeans(normalizedData, k, ...) is made.  ml-kmeans refuses a K that
\* is not a positive integer by throwing, and clusterArticles has no
\* try/catch, so the error leaves clusterArticles.
ClusterKMeansRaises ==
    /\ clusterOut = NoValue
    /\ Len(embeddedArticles) > k
    /\ k <= 0
    /\ clusterOut' = [raised |-> "kmeans"]
    /\ UNCHANGED <<embeddedArticles, k, mergedOut, svars, rvars, uvars>>

\* mergeMiscellaneousClusters(clusters) on the clusters clusterArticles
\* returned
ClusterMerge ==
    /\ clusterOut /= NoValue
    /\ "clusters" \in DOMAIN clusterOut
    /\ mergedOut = NoValue
    /\ mergedOut' = [list |-> mergeMiscellaneousClusters(clusterOut.clusters)]
    /\ UNCHANGED <<embeddedArticles, k, clusterOut, svars, rvars, uvars>>

NextCluster ==
    \/ ClusterEmpty
    \/ ClusterSingletons
    \/ ClusterKMeans
    \/ ClusterKMeansRaises
    \/ ClusterMerge

SpecCluster == InitCluster /\ [][NextCluster]_vars

(***************************************************************************)
(* SpecSelect: one call of selectTopArticles or selectBestOfWeek.          *)
(***************************************************************************)

\* Sequences over S of length at most n
RECURSIVE SeqUpTo(_, _)
SeqUpTo(S, n) ==
    IF n = 0 THEN {<<>>}
    ELSE LET shorter == SeqUpTo(S, n - 1)
         IN  shorter \cup {Append(q, x) : q \in {r \in shorter : Len(r) = n - 1}, x \in S}

\* The elements of an index list for a pool of n articles: in-range and
\* out-of-range integers around both ends, a fraction, a numeric string, null
\* and a word.
IndexValues(n) ==
    {Num(v) : v \in {-1, 0, 1, n - 1, n, n + 1}}
        \cup {Frac(0), Str(1), Null, Word}

FieldValues(n) == {List(q) : q \in SeqUpTo(IndexValues(n), MaxIdx)}

\* The bare integers a text may hold ahead of (or without) a JSON object: one
\* that names an article as a 1-based index and one that names none.
TextInts(n) == {1, n + 1}

\* The response texts of the generation service for a pool of n articles.
Responses(n) ==
    {Response(pre, j, Absent, Absent) :
        pre \in SeqUpTo(TextInts(n), MaxPre), j \in {"none", "invalid"}}
    \cup {Response(pre, "object", sel, Absent) :
            pre \in SeqUpTo(TextInts(n), MaxPre), sel \in FieldValues(n) \cup {NotArray}}
    \cup {Response(pre, "object", Absent, ind) :
            pre \in SeqUpTo(TextInts(n), MaxPre),
            ind \in FieldValues(n) \cup {NotArray, Absent}}

\* Word counts of a pool of n articles: all equal, ascending, descending, and
\* alternating (ties out of input order).
WordCounts(n) ==
    {[i \in 1..n |-> 1], [i \in 1..n |-> i], [i \in 1..n |-> n + 1 - i],
     [i \in 1..n |-> 1 + (i % 2)]}

\* A pool of n distinct articles with the given word counts.
Pool(n, wc) == [i \in 1..n |-> Article(n + 1 - i, n + 1 - i, wc[i])]

InitSelect ==
    /\ InitClusterIdle
    /\ InitRunIdle
    /\ InitUtilIdle
    /\ selFn \in {"top", "best"}
    /\ \E n \in (0..MaxPool) \cup {BEST_OF_COUNT + 1} :
          /\ selFn = "top" => n <= MaxPool
          /\ \E wc \in WordCounts(n) : allArticles = Pool(n, wc)
    /\ count \in IF selFn = "top" THEN 1..MaxCount ELSE {BEST_OF_COUNT}
    /\ attempt = 0
    /\ selPc = "start"
    /\ response = NoValue
    /\ selection = NoValue

\* if (allArticles.length <= count) return { selected: allArticles, ... }
SelectSmallPool ==
    /\ selPc = "start"
    /\ Len(allArticles) <= count
    /\ selection' = smallPoolSelection(allArticles)
    /\ selPc' = "returned"
    /\ UNCHANGED <<selFn, allArticles, count, attempt, response, cvars, rvars, uvars>>

\* The prompt is built and withRetry starts its loop.
SelectCall ==
    /\ selPc = "start"
    /\ Len(allArticles) > count
    /\ selPc' = "calling"
    /\ UNCHANGED <<selFn, allArticles, count, attempt, response, selection, cvars, rvars, uvars>>

\* model.generateContent throws in the current attempt of withRetry: the
\* loop goes on after the backoff, or ends and withRetry throws lastError,
\* which nothing in the selection function catches.
SelectGenerateFails ==
    /\ selPc = "calling"
    /\ attempt < MAX_RETRIES
    /\ attempt' = attempt + 1
    /\ selPc' = IF attempt + 1 < MAX_RETRIES THEN "calling" ELSE "raised"
    /\ UNCHANGED <<selFn, allArticles, count, response, selection, cvars, rvars, uvars>>

\* model.generateContent returns a text in the current attempt; the function
\* parses it and returns.
SelectGenerateReturns ==
    /\ selPc = "calling"
    /\ attempt < MAX_RETRIES
    /\ \E resp \in Responses(Len(allArticles)) :
          /\ response' = resp
          /\ selection' = IF selFn = "top"
                          THEN selectTopParse(allArticles, count, resp)
                          ELSE selectBestParse(allArticles, resp)
    /\ selPc' = "returned"
    /\ attempt' = 0
    /\ UNCHANGED <<selFn, allArticles, count, cvars, rvars, uvars>>

NextSelect ==
    SelectSmallPool \/ SelectCall \/ SelectGenerateFails \/ SelectGenerateReturns

SpecSelect == InitSelect /\ [][NextSelect]_vars

(***************************************************************************)
(* Spec: one pipeline run, from the extracted articles on.                 *)
(***************************************************************************)

\* The number of extracted articles: the short lists; in the older run also
\* the shortest list that can give a main cluster with a generation request
\* ahead of another main cluster, and the lists of six to nine articles that
\* are clustered one by one (five main clusters and a merged miscellaneous
\* cluster of one to four articles).
RunArticleCounts ==
    (1..MaxRunArticles)
        \cup {LIGHT_MIN + 1}
        \cup ((MAIN_CLUSTER_THRESHOLD + 1)..(MAIN_CLUSTER_THRESHOLD + MISC_PASSTHROUGH_MAX + 1))

RunClusterCounts == (1..MaxRunK) \cup {INDEX_CLUSTER_COUNT}

\* n extracted articles; with dup, the second has the id of the first
\* (generateArticleId of the same source, subject and date).
RunPool(n, dup) ==
    [i \in 1..n |->
        Article(n + 1 - i, IF dup /\ i = 2 THEN n ELSE n + 1 - i, 1 + (i % 2))]

\* The replies to the selection request in a run: no JSON object, or an
\* object whose selected field lists integers of 0..n and a fraction.
RunResponses(n) ==
    {Response(<<>>, "none", Absent, Absent)}
        \cup {Response(<<>>, "object", List(q), Absent) :
                q \in SeqUpTo({Num(v) : v \in 0..n} \cup {Frac(0)}, MaxRunIdx)}

InitRun ==
    /\ InitClusterIdle
    /\ InitSelectIdle
    /\ InitUtilIdle
    /\ variant \in {"summary", "curate"}
    /\ CLUSTER_COUNT \in RunClusterCounts
    /\ TOP_ARTICLES_COUNT \in
          IF variant = "summary" THEN 1..MaxCount ELSE {BEST_OF_COUNT}
    /\ \E n \in RunArticleCounts, dup \in BOOLEAN :
          /\ n > MaxRunArticles => variant = "curate"
          /\ n > MAIN_CLUSTER_THRESHOLD => CLUSTER_COUNT >= n
          /\ dup => (variant = "summary" /\ n >= 2)
          /\ runArticles = RunPool(n, dup)
    /\ pc = "embed"
    /\ clusters = <<>>
    /\ topSelection = NoValue
    /\ clusterIdx = 1
    /\ clusterSummaries = <<>>
    /\ curatedMisc = NoValue
    /\ requests = <<>>
    /\ digestCalls = 0
    /\ published = 0
    /\ runError = NoValue

\* A plausible slip: the error is recorded but the run goes on to publish.
failRunMutant(step, label) ==
    /\ pc' = "publish"
    /\ runError' = [step |-> step, label |-> label]

\* The catch block of run: the error record is saved and the error rethrown.
failRun(step, label) ==
    /\ pc' = "failed"
    /\ runError' = [step |-> step, label |-> label]

\* generateEmbeddings returns: at most BATCH_SIZE articles are one batch.
RunEmbed ==
    /\ pc = "embed"
    /\ pc' = "cluster"
    /\ UNCHANGED <<variant, digestCalls, runArticles, CLUSTER_COUNT,
                   TOP_ARTICLES_COUNT, clusters,
                   topSelection, clusterIdx, clusterSummaries, curatedMisc, requests,
                   published, runError, cvars, svars, uvars>>

\* generateEmbeddings throws: the only batch failed.
RunEmbedFails ==
    /\ pc = "embed"
    /\ failRun("embed", NoValue)
    /\ UNCHANGED <<variant, digestCalls, runArticles, CLUSTER_COUNT,
                   TOP_ARTICLES_COUNT, clusters,
                   topSelection, clusterIdx, clusterSummaries, curatedMisc, requests,
                   published, cvars, svars, uvars>>

\* clusterArticles, the labels, and in the older run the merge.
RunCluster ==
    /\ pc = "cluster"
    /\ LET embedded == [i \in 1..Len(runArticles) |-> [article |-> runArticles[i]]]
       IN  \E out \in IF Len(embedded) <= CLUSTER_COUNT
                      THEN {singletonClusters(embedded)}
                      ELSE {groupedClusters(embedded, assign) :
                              assign \in kmeansClusters(Len(embedded), CLUSTER_COUNT)} :
              LET withLabels == [i \in 1..Len(out.clusters) |-> labelled(out.clusters[i])]
              IN  clusters' = IF variant = "curate"
                              THEN mergeMiscellaneousClusters(withLabels)
                              ELSE withLabels
    /\ pc' = "select"
    /\ UNCHANGED <<variant, digestCalls, runArticles, CLUSTER_COUNT, TOP_ARTICLES_COUNT,
                   topSelection, clusterIdx, clusterSummaries, curatedMisc, requests,
                   published, runError, cvars, svars, uvars>>

\* selectTopArticles / selectBestOfWeek return all articles of a small pool.
RunSelectSmallPool ==
    /\ pc = "select"
    /\ Len(runArticles) <= TOP_ARTICLES_COUNT
    /\ topSelection' = smallPoolSelection(runArticles)
    /\ pc' = "loop"
    /\ UNCHANGED <<variant, digestCalls, runArticles, CLUSTER_COUNT,
                   TOP_ARTICLES_COUNT, clusters,
                   clusterIdx, clusterSummaries, curatedMisc, requests,
                   published, runError, cvars, svars, uvars>>

\* The selection's withRetry call fails in all attempts: run's catch.
RunSelectRaises ==
    /\ pc = "select"
    /\ Len(runArticles) > TOP_ARTICLES_COUNT
    /\ failRun("select", NoValue)
    /\ UNCHANGED <<variant, digestCalls, runArticles, CLUSTER_COUNT,
                   TOP_ARTICLES_COUNT, clusters,
                   topSelection, clusterIdx, clusterSummaries, curatedMisc, requests,
                   published, cvars, svars, uvars>>

\* The selection returns; run maps the selected articles to their ids for the
\* cache, which throws on an undefined element.
RunSelectReturns ==
    /\ pc = "select"
    /\ Len(runArticles) > TOP_ARTICLES_COUNT
    /\ \E resp \in RunResponses(Len(runArticles)) :
          LET sel == IF variant = "summary"
                     THEN selectTopParse(runArticles, TOP_ARTICLES_COUNT, resp)
                     ELSE selectBestParse(runArticles, resp)
          IN  IF Undefined \in Range(sel.selected)
              THEN /\ failRun("select-cache", NoValue)
                   /\ UNCHANGED topSelection
              ELSE /\ topSelection' = sel
                   /\ pc' = "loop"
                   /\ UNCHANGED runError
    /\ UNCHANGED <<variant, digestCalls, runArticles, CLUSTER_COUNT,
                   TOP_ARTICLES_COUNT, clusters,
                   clusterIdx, clusterSummaries, curatedMisc, requests,
                   published, cvars, svars, uvars>>

\* ---- index.js: the cluster-summary loop

\* The cluster the loop is at, with the top articles filtered out:
\* { ...cluster, articles: clusterArticles }
filteredCluster ==
    LET cluster == clusters[clusterIdx]
    IN  [id |-> cluster.id,
         articles |-> excludeTopArticles(cluster.articles, topSelection.selected),
         type |-> cluster.type, label |-> cluster.label]

InSummaryLoop == pc = "loop" /\ variant = "summary" /\ clusterIdx <= Len(clusters)

\* if (clusterArticles.length === 0) continue
RunSummarySkipEmpty ==
    /\ InSummaryLoop
    /\ Len(filteredCluster.articles) = 0
    /\ clusterIdx' = clusterIdx + 1
    /\ UNCHANGED <<variant, digestCalls, pc, runArticles, CLUSTER_COUNT,
                   TOP_ARTICLES_COUNT, clusters,
                   topSelection, clusterSummaries, curatedMisc, requests,
                   published, runError, cvars, svars, uvars>>

\* A plausible slip: the cluster's own list is filtered in place.
RunSummaryWrittenMutant ==
    /\ InSummaryLoop
    /\ Len(filteredCluster.articles) > 0
    /\ LET passed == filteredCluster
           prompt == clusterSummaryPrompt(passed, clusters[clusterIdx].label)
       IN  /\ \E o \in {x \in withRetryOutcomes(MAX_RETRIES) : x.ok} :
                 requests' = requests \o
                     submissions("writeClusterSummary", clusterIdx, passed, prompt, o)
           /\ clusterSummaries' = Append(clusterSummaries,
                 [label |-> clusters[clusterIdx].label, summary |-> "text",
                  articleCount |-> Len(passed.articles)])
           /\ clusters' = [clusters EXCEPT ![clusterIdx].articles = passed.articles]
    /\ clusterIdx' = clusterIdx + 1
    /\ UNCHANGED <<variant, digestCalls, pc, runArticles, CLUSTER_COUNT,
                   TOP_ARTICLES_COUNT,
                   topSelection, curatedMisc, published, runError, cvars, svars, uvars>>

\* writeClusterSummary returns and its result is pushed.
RunSummaryWritten ==
    /\ InSummaryLoop
    /\ Len(filteredCluster.articles) > 0
    /\ LET passed == filteredCluster
           prompt == clusterSummaryPrompt(passed, clusters[clusterIdx].label)
       IN  /\ \E o \in {x \in withRetryOutcomes(MAX_RETRIES) : x.ok} :
                 requests' = requests \o
                     submissions("writeClusterSummary", clusterIdx, passed, prompt, o)
           /\ clusterSummaries' = Append(clusterSummaries,
                 [label |-> clusters[clusterIdx].label, summary |-> "text",
                  articleCount |-> Len(passed.articles)])
    /\ clusterIdx' = clusterIdx + 1
    /\ UNCHANGED <<variant, digestCalls, pc, runArticles, CLUSTER_COUNT,
                   TOP_ARTICLES_COUNT, clusters,
                   topSelection, curatedMisc, published, runError, cvars, svars, uvars>>

\* writeClusterSummary throws after the last attempt: the loop's catch logs
\* the error and the loop goes on.
RunSummaryFailed ==
    /\ InSummaryLoop
    /\ Len(filteredCluster.articles) > 0
    /\ LET passed == filteredCluster
           prompt == clusterSummaryPrompt(passed, clusters[clusterIdx].label)
       IN  requests' = requests \o
               submissions("writeClusterSummary", clusterIdx, passed, prompt, retriesExhausted)
    /\ clusterIdx' = clusterIdx + 1
    /\ UNCHANGED <<variant, digestCalls, pc, runArticles, CLUSTER_COUNT,
                   TOP_ARTICLES_COUNT, clusters,
                   topSelection, clusterSummaries, curatedMisc,
                   published, runError, cvars, svars, uvars>>

\* The loop is over: the summaries are cached.
RunSummariesDone ==
    /\ pc = "loop"
    /\ variant = "summary"
    /\ clusterIdx > Len(clusters)
    /\ pc' = "write"
    /\ UNCHANGED <<variant, digestCalls, runArticles, CLUSTER_COUNT,
                   TOP_ARTICLES_COUNT, clusters,
                   topSelection, clusterIdx, clusterSummaries, curatedMisc, requests,
                   published, runError, cvars, svars, uvars>>

\* ---- the older run: the curation loop

mainClusters == SelectSeq(clusters, LAMBDA c : c.type = "main")

miscClusters == SelectSeq(clusters, LAMBDA c : c.type = "miscellaneous")

InCurateLoop == pc = "loop" /\ variant = "curate" /\ clusterIdx <= Len(mainClusters)

\* curateMainCluster with the passthrough strategy: no request.
RunCuratePassthrough ==
    /\ InCurateLoop
    /\ LET cluster == mainClusters[clusterIdx]
           strategy == getCurationStrategy(Len(cluster.articles))
       IN  /\ strategy.strategy = "passthrough"
           /\ clusterSummaries' = Append(clusterSummaries,
                 [label |-> cluster.label, strategy |-> strategy.strategy,
                  curatedContent |-> "null", articleCount |-> Len(cluster.articles)])
    /\ clusterIdx' = clusterIdx + 1
    /\ UNCHANGED <<variant, digestCalls, pc, runArticles, CLUSTER_COUNT,
                   TOP_ARTICLES_COUNT, clusters,
                   topSelection, curatedMisc, requests, published, runError,
                   cvars, svars, uvars>>

\* curateMainCluster submits its prompt and returns the curated content.
RunCurateMain ==
    /\ InCurateLoop
    /\ LET cluster == mainClusters[clusterIdx]
           strategy == getCurationStrategy(Len(cluster.articles))
           prompt == mainClusterPrompt(cluster, cluster.label)
       IN  /\ strategy.strategy /= "passthrough"
           /\ \E o \in {x \in withRetryOutcomes(MAX_RETRIES) : x.ok} :
                 requests' = requests \o
                     submissions("curateMainCluster", clusterIdx, cluster, prompt, o)
           /\ clusterSummaries' = Append(clusterSummaries,
                 [label |-> cluster.label, strategy |-> strategy.strategy,
                  curatedContent |-> "text", articleCount |-> Len(cluster.articles)])
    /\ clusterIdx' = clusterIdx + 1
    /\ UNCHANGED <<variant, digestCalls, pc, runArticles, CLUSTER_COUNT,
                   TOP_ARTICLES_COUNT, clusters,
                   topSelection, curatedMisc, published, runError, cvars, svars, uvars>>

\* A plausible slip: the failed cluster is logged and skipped.
RunCurateMainFailsMutant ==
    /\ InCurateLoop
    /\ LET cluster == mainClusters[clusterIdx]
           strategy == getCurationStrategy(Len(cluster.articles))
           prompt == mainClusterPrompt(cluster, cluster.label)
       IN  /\ strategy.strategy /= "passthrough"
           /\ requests' = requests \o
                 submissions("curateMainCluster", clusterIdx, cluster, prompt, retriesExhausted)
    /\ clusterIdx' = clusterIdx + 1
    /\ UNCHANGED <<variant, digestCalls, pc, runArticles, CLUSTER_COUNT,
                   TOP_ARTICLES_COUNT, clusters, topSelection, clusterSummaries,
                   curatedMisc, published, runError, cvars, svars, uvars>>

\* curateMainCluster throws after the last attempt: the loop rethrows with the
\* cluster's label and run's catch ends the run.
RunCurateMainFails ==
    /\ InCurateLoop
    /\ LET cluster == mainClusters[clusterIdx]
           strategy == getCurationStrategy(Len(cluster.articles))
           prompt == mainClusterPrompt(cluster, cluster.label)
       IN  /\ strategy.strategy /= "passthrough"
           /\ requests' = requests \o
                 submissions("curateMainCluster", clusterIdx, cluster, prompt, retriesExhausted)
           /\ failRun("curate", cluster.label)
    /\ UNCHANGED <<variant, digestCalls, runArticles, CLUSTER_COUNT,
                   TOP_ARTICLES_COUNT, clusters,
                   topSelection, clusterIdx, clusterSummaries, curatedMisc,
                   published, cvars, svars, uvars>>

AtMisc == pc = "loop" /\ variant = "curate" /\ clusterIdx > Len(mainClusters)

\* No request for the miscellaneous cluster: there is none, or it has at most
\* three articles.
RunCurateMiscNoCall ==
    /\ AtMisc
    /\ \/ /\ Len(miscClusters) = 0
          /\ curatedMisc' = [label |-> "Long Tail", strategy |-> "none",
                             curatedContent |-> "null", articleCount |-> 0]
       \/ /\ Len(miscClusters) > 0
          /\ curateMiscStrategy(Len(miscClusters[1].articles)) /= "misc"
          /\ curatedMisc' =
                [label |-> "Long Tail",
                 strategy |-> curateMiscStrategy(Len(miscClusters[1].articles)),
                 curatedContent |-> "null",
                 articleCount |-> Len(miscClusters[1].articles)]
    /\ pc' = "write"
    /\ UNCHANGED <<variant, digestCalls, runArticles, CLUSTER_COUNT,
                   TOP_ARTICLES_COUNT, clusters,
                   topSelection, clusterIdx, clusterSummaries, requests,
                   published, runError, cvars, svars, uvars>>

\* curateMiscCluster submits its prompt and returns the curated content.
RunCurateMisc ==
    /\ AtMisc
    /\ Len(miscClusters) > 0
    /\ curateMiscStrategy(Len(miscClusters[1].articles)) = "misc"
    /\ LET cluster == miscClusters[1]
           prompt == miscClusterPrompt(cluster)
       IN  /\ \E o \in {x \in withRetryOutcomes(MAX_RETRIES) : x.ok} :
                 requests' = requests \o
                     submissions("curateMiscCluster", Len(mainClusters) + 1, cluster,
                                 prompt, o)
           /\ curatedMisc' = [label |-> "Long Tail", strategy |-> "misc",
                              curatedContent |-> "text",
                              articleCount |-> Len(cluster.articles)]
    /\ pc' = "write"
    /\ UNCHANGED <<variant, digestCalls, runArticles, CLUSTER_COUNT,
                   TOP_ARTICLES_COUNT, clusters,
                   topSelection, clusterIdx, clusterSummaries,
                   published, runError, cvars, svars, uvars>>

\* curateMiscCluster throws after the last attempt: run's catch ends the run.
RunCurateMiscFails ==
    /\ AtMisc
    /\ Len(miscClusters) > 0
    /\ curateMiscStrategy(Len(miscClusters[1].articles)) = "misc"
    /\ LET cluster == miscClusters[1]
           prompt == miscClusterPrompt(cluster)
       IN  requests' = requests \o
               submissions("curateMiscCluster", Len(mainClusters) + 1, cluster,
                           prompt, retriesExhausted)
    /\ failRun("curate-misc", NoValue)
    /\ UNCHANGED <<variant, digestCalls, runArticles, CLUSTER_COUNT,
                   TOP_ARTICLES_COUNT, clusters,
                   topSelection, clusterIdx, clusterSummaries, curatedMisc,
                   published, cvars, svars, uvars>>

\* ---- both runs: the digest and its publication

\* writeDeepAnalysis and assembleDigest (index.js), writeDigest (older run).
RunWrite ==
    /\ pc = "write"
    /\ digestCalls' = digestCalls + 1
    /\ pc' = "publish"
    /\ UNCHANGED <<variant, runArticles, CLUSTER_COUNT, TOP_ARTICLES_COUNT, clusters,
                   topSelection, clusterIdx, clusterSummaries, curatedMisc, requests,
                   published, runError, cvars, svars, uvars>>

RunWriteFails ==
    /\ pc = "write"
    /\ digestCalls' = digestCalls + 1
    /\ failRun("write", NoValue)
    /\ UNCHANGED <<variant, runArticles, CLUSTER_COUNT, TOP_ARTICLES_COUNT, clusters,
                   topSelection, clusterIdx, clusterSummaries, curatedMisc, requests,
                   published, cvars, svars, uvars>>

\* publishToNotion returns.
RunPublish ==
    /\ pc = "publish"
    /\ published' = published + 1
    /\ pc' = "done"
    /\ UNCHANGED <<variant, digestCalls, runArticles, CLUSTER_COUNT,
                   TOP_ARTICLES_COUNT, clusters,
                   topSelection, clusterIdx, clusterSummaries, curatedMisc, requests,
                   runError, cvars, svars, uvars>>

\* publishToNotion throws: from pages.create, or from appending the remaining
\* blocks to the page it created.
RunPublishFails ==
    /\ pc = "publish"
    /\ \E created \in BOOLEAN : published' = IF created THEN published + 1 ELSE published
    /\ failRun("publish", NoValue)
    /\ UNCHANGED <<variant, digestCalls, runArticles, CLUSTER_COUNT,
                   TOP_ARTICLES_COUNT, clusters,
                   topSelection, clusterIdx, clusterSummaries, curatedMisc, requests,
                   cvars, svars, uvars>>

Next ==
    \/ RunEmbed \/ RunEmbedFails \/ RunCluster
    \/ RunSelectSmallPool \/ RunSelectRaises \/ RunSelectReturns
    \/ RunSummarySkipEmpty \/ RunSummaryWritten \/ RunSummaryFailed \/ RunSummariesDone
    \/ RunCuratePassthrough \/ RunCurateMain \/ RunCurateMainFails
    \/ RunCurateMiscNoCall \/ RunCurateMisc \/ RunCurateMiscFails
    \/ RunWrite \/ RunWriteFails \/ RunPublish \/ RunPublishFails

Spec == InitRun /\ [][Next]_vars

(***************************************************************************)
(* SpecStrategy: getCurationStrategy applied to one article count.         *)
(***************************************************************************)
InitStrategy ==
    /\ InitClusterIdle
    /\ InitSelectIdle
    /\ InitRunIdle
    /\ InitRetryIdle
    /\ InitEmbedIdle
    /\ strategyCount \in 0..MaxArticleCount
    /\ strategyOut = NoValue
    /\ InitDigestIdle
    /\ InitSplitIdle

StrategyCall ==
    /\ strategyOut = NoValue
    /\ strategyOut' = getCurationStrategy(strategyCount)
    /\ UNCHANGED <<strategyCount, cvars, svars, rvars, wvars, evars, dvars, nvars>>

NextStrategy == StrategyCall

SpecStrategy == InitStrategy /\ [][NextStrategy]_vars

(***************************************************************************)
(* SpecRetry: one withRetry(fn, maxRetries, baseDelay) call.               *)
(***************************************************************************)

\* The base delays of the program's calls.
BaseDelays == {1000, 2000}

\* What an invocation of fn returns, and the errors it throws.
FnValues == {"v1", "v2"}
FnErrors == {"e1", "e2"}

InitRetry ==
    /\ InitClusterIdle
    /\ InitSelectIdle
    /\ InitRunIdle
    /\ InitStrategyIdle
    /\ InitEmbedIdle
    /\ maxRetries \in 0..MaxRetriesArg
    /\ baseDelay \in BaseDelays
    /\ retryAttempt = 0
    /\ retryPc = "loop"
    /\ fnResults = <<>>
    /\ retryDelays = <<>>
    /\ lastError = NoValue
    /\ retryResult = NoValue
    /\ InitDigestIdle
    /\ InitSplitIdle

\* return await fn(): fn succeeded in this attempt.
RetryFnReturns ==
    /\ retryPc = "loop"
    /\ retryAttempt < maxRetries
    /\ \E v \in FnValues :
          /\ fnResults' = Append(fnResults, [ok |-> TRUE, value |-> v])
          /\ retryResult' = [returned |-> v]
    /\ retryPc' = "returned"
    /\ UNCHANGED <<maxRetries, baseDelay, retryAttempt, retryDelays, lastError,
                   cvars, svars, rvars, tvars, evars, dvars, nvars>>

\* The catch block: fn threw; the error is kept and, unless this was the last
\* attempt, the loop sleeps.
RetryFnThrows ==
    /\ retryPc = "loop"
    /\ retryAttempt < maxRetries
    /\ \E err \in FnErrors :
          /\ fnResults' = Append(fnResults, [ok |-> FALSE, value |-> err])
          /\ lastError' = err
    /\ retryDelays' = IF retryAttempt < maxRetries - 1
                      THEN Append(retryDelays, retryDelay(baseDelay, retryAttempt))
                      ELSE retryDelays
    /\ retryAttempt' = retryAttempt + 1
    /\ UNCHANGED <<maxRetries, baseDelay, retryPc, retryResult,
                   cvars, svars, rvars, tvars, evars, dvars, nvars>>

\* The loop is over: throw lastError.
RetryRaises ==
    /\ retryPc = "loop"
    /\ retryAttempt >= maxRetries
    /\ retryResult' = [raised |-> lastError]
    /\ retryPc' = "raised"
    /\ UNCHANGED <<maxRetries, baseDelay, retryAttempt, fnResults, retryDelays,
                   lastError, cvars, svars, rvars, tvars, evars, dvars, nvars>>

NextRetry == RetryFnReturns \/ RetryFnThrows \/ RetryRaises

SpecRetry == InitRetry /\ [][NextRetry]_vars

(***************************************************************************)
(* SpecEmbed: one generateEmbeddings(articles) call.                       *)
(***************************************************************************)

\* chunk(array, size): consecutive slices of at most size elements.
chunk(array, size) ==
    [b \in 1..((Len(array) + size - 1) \div size) |->
        SubSeq(array, (b - 1) * size + 1, Min(b * size, Len(array)))]

\* embedBatch(texts): response.data.map(d => d.embedding), the vector of the
\* text at each position.
embedBatch(batch) == [j \in 1..Len(batch) |-> [vectorOf |-> batch[j].key]]

\* A plausible slip: the embeddings paired with the articles back to front.
batchResultsMutant(batch) ==
    LET embeddings == embedBatch(batch)
    IN  [j \in 1..Len(batch) |->
            [article |-> batch[j], embedding |-> embeddings[Len(batch) + 1 - j]]]

\* The pairs pushed for a batch: article j with embeddings[j].
batchResults(batch) ==
    LET embeddings == embedBatch(batch)
    IN  [j \in 1..Len(batch) |-> [article |-> batch[j], embedding |-> embeddings[j]]]

\* A line of log(): its message, the batch number and the counts it prints,
\* and the article ids it prints (no message of generateEmbeddings prints one).
logLine(level, msg, batch, n) ==
    [level |-> level, msg |-> msg, batch |-> batch, count |-> n, ids |-> {}]

\* The API submissions and backoff sleeps of withRetry(fn, 3, 1000) for batch
\* number b with outcome o.
RECURSIVE batchEvents(_, _, _)
batchEvents(b, o, t) ==
    IF t > o.tries THEN <<>>
    ELSE <<[kind |-> "submit", batch |-> b, attempt |-> t,
            ok |-> o.ok /\ t = o.tries, ms |-> 0]>>
         \o (IF t < o.tries
             THEN <<[kind |-> "backoff", batch |-> b, attempt |-> t, ok |-> FALSE,
                     ms |-> retryDelay(EMBED_BASE_DELAY, t - 1)]>>
             ELSE <<>>)
         \o batchEvents(b, o, t + 1)

\* A plausible slip: the pause follows the last batch too.
batchPauseMutant(i, batchCount) ==
    IF i < batchCount
    THEN <<[kind |-> "pause", batch |-> i + 1, attempt |-> 0, ok |-> FALSE,
            ms |-> BATCH_PAUSE]>>
    ELSE <<>>

\* if (i < batches.length - 1) await sleep(200)
batchPause(i, batchCount) ==
    IF i < batchCount - 1
    THEN <<[kind |-> "pause", batch |-> i + 1, attempt |-> 0, ok |-> FALSE,
            ms |-> BATCH_PAUSE]>>
    ELSE <<>>

\* A plausible slip: the call fails as soon as one article has no embedding.
noEmbeddingsMutant(res) == Len(res) < Len(embArticles)

\* results.length === 0
noEmbeddings(res) == Len(res) = 0

\* The input lists: the short ones, and those that fill exactly one batch,
\* one batch and one article, two batches, and two batches and one article.
EmbedInputLengths ==
    (0..MaxEmbArticles)
        \cup {BATCH_SIZE, BATCH_SIZE + 1, 2 * BATCH_SIZE, 2 * BATCH_SIZE + 1}

InitEmbed ==
    /\ InitClusterIdle
    /\ InitSelectIdle
    /\ InitRunIdle
    /\ InitStrategyIdle
    /\ InitRetryIdle
    /\ \E n \in EmbedInputLengths :
          /\ embArticles = [i \in 1..n |-> Article(n + 1 - i, 100 + i, 1)]
          /\ embLog = <<logLine("progress", "generating", 0, n)>>
    /\ batchIndex = 0
    /\ results = <<>>
    /\ failed = <<>>
    /\ embEvents = <<>>
    /\ embPc = "loop"
    /\ embReturn = NoValue
    /\ InitDigestIdle
    /\ InitSplitIdle

batches == chunk(embArticles, BATCH_SIZE)

\* One pass of the loop in which withRetry returns the embeddings.
EmbedBatchSucceeds ==
    /\ embPc = "loop"
    /\ batchIndex < Len(batches)
    /\ LET batch == batches[batchIndex + 1]
       IN  /\ \E o \in {x \in withRetryOutcomes(MAX_RETRIES) : x.ok} :
                 embEvents' = embEvents \o batchEvents(batchIndex + 1, o, 1)
                                  \o batchPause(batchIndex, Len(batches))
           /\ results' = results \o batchResults(batch)
           /\ embLog' = Append(embLog,
                               logLine("progress", "batch", batchIndex + 1, Len(batches)))
    /\ batchIndex' = batchIndex + 1
    /\ UNCHANGED <<embArticles, failed, embPc, embReturn, cvars, svars, rvars, tvars,
                   wvars, dvars, nvars>>

\* One pass of the loop in which withRetry throws: the catch logs the batch
\* number and the error message and keeps the ids in failed.
EmbedBatchFails ==
    /\ embPc = "loop"
    /\ batchIndex < Len(batches)
    /\ LET batch == batches[batchIndex + 1]
       IN  /\ embEvents' = embEvents \o batchEvents(batchIndex + 1, retriesExhausted, 1)
                               \o batchPause(batchIndex, Len(batches))
           /\ failed' = failed \o [j \in 1..Len(batch) |-> batch[j].id]
           /\ embLog' = embLog
                 \o <<logLine("progress", "batch", batchIndex + 1, Len(batches)),
                      logLine("error", "batch-failed", batchIndex + 1, 0)>>
    /\ batchIndex' = batchIndex + 1
    /\ UNCHANGED <<embArticles, results, embPc, embReturn, cvars, svars, rvars, tvars,
                   wvars, dvars, nvars>>

\* The warning after the loop, when a batch failed.
failedWarning ==
    IF Len(failed) > 0
    THEN <<logLine("warn", "failed-count", 0, Len(failed))>>
    ELSE <<>>

\* After the loop: return results.
EmbedReturns ==
    /\ embPc = "loop"
    /\ batchIndex >= Len(batches)
    /\ ~noEmbeddings(results)
    /\ embLog' = embLog \o failedWarning
                    \o <<logLine("success", "generated", Len(failed), Len(results))>>
    /\ embReturn' = [returned |-> results]
    /\ embPc' = "returned"
    /\ UNCHANGED <<embArticles, batchIndex, results, failed, embEvents, cvars, svars,
                   rvars, tvars, wvars, dvars, nvars>>

\* After the loop: throw new Error('Failed to generate any embeddings').
EmbedRaises ==
    /\ embPc = "loop"
    /\ batchIndex >= Len(batches)
    /\ noEmbeddings(results)
    /\ embLog' = embLog \o failedWarning
    /\ embReturn' = [raised |-> "Failed to generate any embeddings"]
    /\ embPc' = "raised"
    /\ UNCHANGED <<embArticles, batchIndex, results, failed, embEvents, cvars, svars,
                   rvars, tvars, wvars, dvars, nvars>>

NextEmbed == EmbedBatchSucceeds \/ EmbedBatchFails \/ EmbedReturns \/ EmbedRaises

SpecEmbed == InitEmbed /\ [][NextEmbed]_vars

(***************************************************************************)
(* ai/claude.js: assembleDigest.  A text is modelled by its parts in       *)
(* order; a part is [part |-> its kind, arg |-> the values it carries].    *)
(***************************************************************************)

\* The most cluster summaries and the most lines of deep analysis given to
\* assembleDigest in the model.
MaxSummaries == 3
MaxLines == 2

\* A summary text: the empty string for i = 0, a non-empty text for i > 0.
Text(i) == [t |-> "text", v |-> i]

\* A line of the deep analysis: "### [title i]", "### title i", other text.
BracketHeading(i) == [t |-> "h3b", v |-> i]
PlainHeading(i) == [t |-> "h3", v |-> i]
BodyLine == [t |-> "body", v |-> 0]

Part(kind, arg) == [part |-> kind, arg |-> arg]

\* `\n\n---\n\n` (`---\n\n` after a blank line)
Separator == Part("separator", <<>>)

\* A plausible slip: the separator written for every cluster of the list.
RECURSIVE topicSectionMutant(_, _)
topicSectionMutant(sums, i) ==
    IF i > Len(sums) THEN <<>>
    ELSE (IF sums[i].summary.t = "text" /\ sums[i].summary.v /= 0
             /\ sums[i].articleCount > 0
          THEN <<Part("summary", <<sums[i].summary>>)>>
          ELSE <<>>)
         \o <<Separator>> \o topicSectionMutant(sums, i + 1)

\* for (const cluster of clusterSummaries)
\*   if (cluster.summary && cluster.articleCount > 0) { summary; separator }
RECURSIVE topicSection(_, _)
topicSection(sums, i) ==
    IF i > Len(sums) THEN <<>>
    ELSE (IF sums[i].summary.t = "text" /\ sums[i].summary.v /= 0
             /\ sums[i].articleCount > 0
          THEN <<Part("summary", <<sums[i].summary>>), Separator>>
          ELSE <<>>)
         \o topicSection(sums, i + 1)

\* The header lines: the title, then **dateRange** and the article count
\* (metadata.dateRange || 'This Week', metadata.totalArticles || 0).
digestHeader(title, meta) ==
    <<Part("title", <<Text(title)>>),
      Part("dateline", <<[t |-> "dateRange", v |-> meta.dateRange],
                         [t |-> "count", v |-> meta.totalArticles]>>),
      Separator>>

\* assembleDigest of src/src/ai/claude.js
assembleDigest(deep, sums, meta) ==
    digestHeader(1, meta)
    \o <<Part("heading", <<Text(2)>>),
         Part("listing", <<[t |-> "count", v |-> meta.totalArticles],
                           [t |-> "count", v |-> Len(sums)]>>),
         Separator,
         Part("heading", <<Text(3)>>),
         Part("deep", deep),
         Separator,
         Part("heading", <<Text(4)>>)>>
    \o topicSection(sums, 1)
    \o <<Part("closing", <<Text(5)>>), Part("closing", <<Text(6)>>)>>

\* extractTopStoryTitles: the titles of the lines /^### (?:\[(.+?)\]|(.+))$/
extractTopStoryTitles(deep) ==
    LET headings == SelectSeq(deep, LAMBDA l : l.t \in {"h3b", "h3"})
    IN  [i \in DOMAIN headings |-> [t |-> "title", v |-> headings[i].v]]

\* extractClusterTopics: the labels of the first six included clusters
extractClusterTopics(sums) ==
    LET included == SelectSeq(sums, LAMBDA c : /\ c.summary.t = "text"
                                               /\ c.summary.v /= 0
                                               /\ c.articleCount > 0)
    IN  [i \in 1..Min(Len(included), 6) |-> [t |-> "label", v |-> included[i].label]]

\* assembleDigest of the second copy of claude.js (src/unnamed/part_000)
assembleDigestListing(deep, sums, meta) ==
    LET topStoryTitles == extractTopStoryTitles(deep)
        clusterTopics == extractClusterTopics(sums)
    IN  digestHeader(7, meta)
        \o <<Part("heading", <<Text(8)>>)>>
        \o (IF Len(topStoryTitles) > 0
            THEN <<Part("listing", topStoryTitles)>> ELSE <<>>)
        \o (IF Len(clusterTopics) > 0
            THEN <<Part("alsoCovered", clusterTopics)>> ELSE <<>>)
        \o <<Separator,
             Part("heading", <<Text(9)>>),
             Part("deep", deep),
             Separator,
             Part("heading", <<Text(10)>>)>>
        \o topicSection(sums, 1)
        \o <<Part("closing", <<Text(11)>>), Part("closing", <<Text(12)>>)>>

\* The arguments of the model: the lines of the deep analysis, and cluster
\* summaries whose i-th element has label i and a null, empty or non-empty
\* summary and an articleCount of 0 or 2.
DeepLines == {BracketHeading(1), PlainHeading(2), BodyLine}
DeepAnalyses == UNION {[1..n -> DeepLines] : n \in 0..MaxLines}
SummaryLists ==
    UNION {{[i \in 1..n |-> [label |-> i,
                             summary |-> IF f[i][1] = 0 THEN Null
                                         ELSE IF f[i][1] = 1 THEN Text(0)
                                         ELSE Text(i),
                             articleCount |-> f[i][2]]] :
                f \in [1..n -> (0..2) \X {0, 2}]} : n \in 0..MaxSummaries}

InitDigest ==
    /\ InitClusterIdle
    /\ InitSelectIdle
    /\ InitRunIdle
    /\ InitStrategyIdle
    /\ InitRetryIdle
    /\ InitEmbedIdle
    /\ InitSplitIdle
    /\ digestVariant \in {"claude.js", "part_000"}
    /\ digestDeep \in DeepAnalyses
    /\ digestSummaries \in SummaryLists
    /\ digestMeta \in {[dateRange |-> 0, totalArticles |-> 0],
                       [dateRange |-> 1, totalArticles |-> 7]}
    /\ digestPc = "called"
    /\ digestOut = <<>>

AssembleDigest ==
    /\ digestPc = "called"
    /\ digestVariant = "claude.js"
    /\ digestOut' = assembleDigest(digestDeep, digestSummaries, digestMeta)
    /\ digestPc' = "returned"
    /\ UNCHANGED <<digestVariant, digestDeep, digestSummaries, digestMeta,
                   cvars, svars, rvars, tvars, wvars, evars, nvars>>

AssembleDigestListing ==
    /\ digestPc = "called"
    /\ digestVariant = "part_000"
    /\ digestOut' = assembleDigestListing(digestDeep, digestSummaries, digestMeta)
    /\ digestPc' = "returned"
    /\ UNCHANGED <<digestVariant, digestDeep, digestSummaries, digestMeta,
                   cvars, svars, rvars, tvars, wvars, evars, nvars>>

NextDigest == AssembleDigest \/ AssembleDigestListing

SpecDigest == InitDigest /\ [][NextDigest]_vars

(***************************************************************************)
(* utils/helpers.js: splitForNotion.  A text is the sequence of its        *)
(* characters; indices are 0-based as in the code.                         *)
(***************************************************************************)

\* The longest text and the largest maxLength given to splitForNotion.
MaxTextLen == 5
MaxSplitLength == 3

\* The characters of the model: a letter, a blank, a full stop, a newline.
Chars == {"a", " ", ".", "\n"}
Whitespace == {" ", "\n"}

\* String.prototype.slice(from, to) for 0 <= from
slice(str, from, to) == SubSeq(str, from + 1, Min(to, Len(str)))

\* String.prototype.trim()
RECURSIVE trimStart(_)
trimStart(str) ==
    IF str /= <<>> /\ Head(str) \in Whitespace THEN trimStart(Tail(str)) ELSE str

RECURSIVE trimEnd(_)
trimEnd(str) ==
    IF str /= <<>> /\ str[Len(str)] \in Whitespace
    THEN trimEnd(SubSeq(str, 1, Len(str) - 1)) ELSE str

trim(str) == trimEnd(trimStart(str))

\* String.prototype.lastIndexOf(pattern, position): the largest index not
\* above position at which pattern starts, or -1.
lastIndexOf(str, pattern, position) ==
    LET starts == {i \in 0..Min(position, Len(str) - Len(pattern)) :
                      SubSeq(str, i + 1, i + Len(pattern)) = pattern}
    IN  IF starts = {} THEN 0 - 1
        ELSE CHOOSE i \in starts : \A j \in starts : j <= i

\* breakPoint === -1 || breakPoint < maxLength / 2
poorBreak(breakPoint, maxLength) == breakPoint = 0 - 1 \/ 2 * breakPoint < maxLength

\* The break point of one pass of the loop: paragraph, sentence, word, or
\* maxLength.
findBreakPoint(str, maxLength) ==
    LET paragraph == lastIndexOf(str, <<"\n", "\n">>, maxLength)
        sentence == IF poorBreak(paragraph, maxLength)
                    THEN lastIndexOf(str, <<".", " ">>, maxLength) ELSE paragraph
        word == IF poorBreak(sentence, maxLength)
                THEN lastIndexOf(str, <<" ">>, maxLength) ELSE sentence
    IN  IF word = 0 - 1 THEN maxLength ELSE word

InitSplit ==
    /\ InitClusterIdle
    /\ InitSelectIdle
    /\ InitRunIdle
    /\ InitStrategyIdle
    /\ InitRetryIdle
    /\ InitEmbedIdle
    /\ InitDigestIdle
    /\ splitText \in UNION {[1..n -> Chars] : n \in 0..MaxTextLen}
    /\ splitMax \in 2..MaxSplitLength
    /\ remaining = <<>>
    /\ chunks = <<>>
    /\ splitPc = "called"

\* if (text.length <= maxLength) return [text]
SplitShort ==
    /\ splitPc = "called"
    /\ Len(splitText) <= splitMax
    /\ chunks' = <<splitText>>
    /\ splitPc' = "returned"
    /\ UNCHANGED <<splitText, splitMax, remaining, cvars, svars, rvars, tvars, wvars,
                   evars, dvars>>

\* const chunks = []; let remaining = text
SplitEnter ==
    /\ splitPc = "called"
    /\ Len(splitText) > splitMax
    /\ remaining' = splitText
    /\ chunks' = <<>>
    /\ splitPc' = "loop"
    /\ UNCHANGED <<splitText, splitMax, cvars, svars, rvars, tvars, wvars, evars, dvars>>

\* if (remaining.length <= maxLength) { chunks.push(remaining); break }
SplitLast ==
    /\ splitPc = "loop"
    /\ Len(remaining) > 0
    /\ Len(remaining) <= splitMax
    /\ chunks' = Append(chunks, remaining)
    /\ splitPc' = "returned"
    /\ UNCHANGED <<splitText, splitMax, remaining, cvars, svars, rvars, tvars, wvars,
                   evars, dvars>>

\* One pass of the loop that cuts a chunk off remaining.
SplitBreak ==
    /\ splitPc = "loop"
    /\ Len(remaining) > splitMax
    /\ LET breakPoint == findBreakPoint(remaining, splitMax)
       IN  /\ chunks' = Append(chunks, trim(slice(remaining, 0, breakPoint + 1)))
           /\ remaining' = trim(slice(remaining, breakPoint + 1, Len(remaining)))
    /\ UNCHANGED <<splitText, splitMax, splitPc, cvars, svars, rvars, tvars, wvars,
                   evars, dvars>>

\* while (remaining.length > 0) ends; return chunks
SplitDone ==
    /\ splitPc = "loop"
    /\ Len(remaining) = 0
    /\ splitPc' = "returned"
    /\ UNCHANGED <<splitText, splitMax, remaining, chunks, cvars, svars, rvars, tvars,
                   wvars, evars, dvars>>

NextSplit == SplitShort \/ SplitEnter \/ SplitLast \/ SplitBreak \/ SplitDone

SpecSplit == InitSplit /\ [][NextSplit]_vars

(***************************************************************************)
(* Properties of the per-cluster generation calls, checked under Spec.     *)
(***************************************************************************)

\* The article contents a prompt carries, in order.
promptSubjects(prompt) == [i \in 1..Len(prompt.ARTICLES) |-> prompt.ARTICLES[i].subject]

\* C1: for every generation request of curateMainCluster, curateMiscCluster
\* and writeClusterSummary, the articles in the prompt are exactly the
\* articles of the cluster passed to the call, in its order and numbered
\* from 1, and the prompt holds no article that only another cluster has.
C1_PromptIsolation ==
    \A p \in DOMAIN requests :
        LET r == requests[p]
        IN  /\ r.fn \in {"curateMainCluster", "curateMiscCluster", "writeClusterSummary"}
            /\ promptSubjects(r.prompt) = [i \in 1..Len(r.passed) |-> r.passed[i].key]
            /\ \A i \in DOMAIN r.prompt.ARTICLES : r.prompt.ARTICLES[i].heading = i
            /\ r.prompt.ARTICLE_COUNT = Len(r.passed)
            /\ \A j \in DOMAIN clusters :
                  j /= r.idx =>
                      \A a \in Range(clusters[j].articles) :
                          a \notin Range(r.passed) =>
                              a.key \notin Range(promptSubjects(r.prompt))

\* C1 witness: a request was issued for a cluster of several articles while
\* another cluster holds articles too.
C1_Witness ==
    \E p \in DOMAIN requests :
        /\ Len(requests[p].passed) >= 2
        /\ \E j \in DOMAIN clusters :
              j /= requests[p].idx /\ Len(clusters[j].articles) >= 1

\* C2: in the run of index.js no article of topSelection.selected is in the
\* article list passed to writeClusterSummary, nor in the prompt formatted
\* from that list.
C2_TopArticlesExcluded ==
    \A p \in DOMAIN requests :
        requests[p].fn = "writeClusterSummary" =>
            \A a \in Range(topSelection.selected) :
                /\ a \notin Range(requests[p].passed)
                /\ a.key \notin Range(promptSubjects(requests[p].prompt))

\* C2 witness: a summary request was issued for a cluster that holds a
\* selected article.
C2_Witness ==
    \E p \in DOMAIN requests :
        /\ requests[p].fn = "writeClusterSummary"
        /\ \E a \in Range(topSelection.selected) :
              a \in Range(clusters[requests[p].idx].articles)

(***************************************************************************)
(* Properties of clusterArticles, checked under SpecCluster.               *)
(***************************************************************************)
ClusterDone == clusterOut /= NoValue /\ "clusters" \in DOMAIN clusterOut

GeneralPath == ClusterDone /\ Len(embeddedArticles) > k

\* The places (cluster, position) of the result that hold article a.
PlacesOf(a) ==
    {p \in UNION {{<<c, j>> : j \in DOMAIN clusterOut.clusters[c].articles} :
                    c \in DOMAIN clusterOut.clusters} :
        clusterOut.clusters[p[1]].articles[p[2]] = a}

InputArticles == {embeddedArticles[i].article : i \in DOMAIN embeddedArticles}

\* C3: for every non-empty input and every k >= 1 the returned clusters
\* partition the input articles: each input article is at exactly one place of
\* exactly one cluster, and every article of a cluster is an input article,
\* whatever assignment vector k-means returned.
C3_Partition ==
    (ClusterDone /\ Len(embeddedArticles) > 0 /\ k >= 1) =>
        /\ \A a \in InputArticles : Cardinality(PlacesOf(a)) = 1
        /\ \A c \in DOMAIN clusterOut.clusters :
              Range(clusterOut.clusters[c].articles) \subseteq InputArticles

\* C3 witness: a general-path result with several clusters, one of them
\* holding more than one article.
C3_Witness ==
    /\ GeneralPath
    /\ Len(clusterOut.clusters) >= 2
    /\ \E c \in DOMAIN clusterOut.clusters : Len(clusterOut.clusters[c].articles) >= 2

\* C4: with 0 < len(embedded) <= k the result is len(embedded) singleton
\* clusters, the i-th holding the i-th input article, with assignments
\* 0..n-1; six articles with k = 8 give five 'main' clusters and then one
\* 'miscellaneous' cluster.
C4_Singletons ==
    (ClusterDone /\ Len(embeddedArticles) > 0 /\ Len(embeddedArticles) <= k) =>
        /\ Len(clusterOut.clusters) = Len(embeddedArticles)
        /\ \A i \in DOMAIN embeddedArticles :
              clusterOut.clusters[i].articles = <<embeddedArticles[i].article>>
        /\ clusterOut.assignments = [i \in DOMAIN embeddedArticles |-> i - 1]
        /\ (Len(embeddedArticles) = 6 /\ k = 8) =>
              /\ \A i \in 1..5 : clusterOut.clusters[i].type = "main"
              /\ clusterOut.clusters[6].type = "miscellaneous"

\* C4 witness: the six-article, k = 8 scenario has been clustered.
C4_Witness == ClusterDone /\ Len(embeddedArticles) = 6 /\ k = 8

\* Position of the first occurrence of a label in the assignment vector.
FirstOccurrence(label) ==
    CHOOSE i \in DOMAIN clusterOut.assignments :
        /\ clusterOut.assignments[i] = label
        /\ \A j \in 1..(i - 1) : clusterOut.assignments[j] /= label

\* C5 as stated: in the general path the clusters are in descending member
\* count and clusters of equal member count are in ascending originalId.
C5_TiesByOriginalId ==
    GeneralPath =>
        \A i, j \in DOMAIN clusterOut.clusters :
            i < j =>
                LET a == clusterOut.clusters[i]
                    b == clusterOut.clusters[j]
                IN  /\ Len(a.articles) >= Len(b.articles)
                    /\ Len(a.articles) = Len(b.articles) => a.originalId < b.originalId

\* C5 amended: in the general path the clusters are in descending member
\* count, and clusters of equal member count are in the order in which their
\* labels first occur in the assignment vector, which is the order of their
\* first articles in the input.
C5_TiesByFirstOccurrence ==
    GeneralPath =>
        \A i, j \in DOMAIN clusterOut.clusters :
            i < j =>
                LET a == clusterOut.clusters[i]
                    b == clusterOut.clusters[j]
                IN  /\ Len(a.articles) >= Len(b.articles)
                    /\ Len(a.articles) = Len(b.articles) =>
                          /\ FirstOccurrence(a.originalId) < FirstOccurrence(b.originalId)
                          /\ embeddedArticles[FirstOccurrence(a.originalId)].article
                                = a.articles[1]
                          /\ embeddedArticles[FirstOccurrence(b.originalId)].article
                                = b.articles[1]

\* C5 witness: two clusters of equal member count whose labels are not in
\* ascending order.
C5_Witness ==
    /\ GeneralPath
    /\ \E i, j \in DOMAIN clusterOut.clusters :
          /\ i < j
          /\ Len(clusterOut.clusters[i].articles) = Len(clusterOut.clusters[j].articles)
          /\ clusterOut.clusters[i].originalId > clusterOut.clusters[j].originalId

\* C6: in every result the cluster at list position i (0-based) has id i and
\* is 'main' exactly when i < 5, and no 'miscellaneous' cluster has more
\* articles than a 'main' cluster.
C6_PositionalType ==
    ClusterDone =>
        /\ \A i \in DOMAIN clusterOut.clusters :
              /\ clusterOut.clusters[i].id = i - 1
              /\ clusterOut.clusters[i].type \in {"main", "miscellaneous"}
              /\ clusterOut.clusters[i].type = "main" <=> i - 1 < 5
        /\ \A i, j \in DOMAIN clusterOut.clusters :
              (/\ clusterOut.clusters[i].type = "miscellaneous"
               /\ clusterOut.clusters[j].type = "main") =>
                  Len(clusterOut.clusters[i].articles)
                      <= Len(clusterOut.clusters[j].articles)

\* C6 witness: a general-path result with a 'miscellaneous' cluster and a
\* 'main' cluster of more than one article.
C6_Witness ==
    /\ GeneralPath
    /\ \E i, j \in DOMAIN clusterOut.clusters :
          /\ clusterOut.clusters[i].type = "miscellaneous"
          /\ clusterOut.clusters[j].type = "main"
          /\ Len(clusterOut.clusters[j].articles) >= 2

(***************************************************************************)
(* Properties of selectTopArticles and selectBestOfWeek, checked under     *)
(* SpecSelect.                                                             *)
(***************************************************************************)
SelectReturned == selPc = "returned"

\* C7: selectTopArticles and selectBestOfWeek never raise, whatever the
\* generation service does (failing on every retry attempt included).
C7_SelectionNeverRaises == selPc /= "raised"

\* C8: whenever allArticles is non-empty the returned selection holds at
\* least one article, for every response text.
C8_SelectionNonEmpty ==
    (SelectReturned /\ Len(allArticles) > 0) => Len(selection.selected) >= 1

\* C9: the returned selection has at most count articles (at most 5 for
\* selectBestOfWeek) and every selected article is an element of allArticles.
C9_SelectionBounded ==
    SelectReturned =>
        /\ Len(selection.selected) <= (IF selFn = "top" THEN count ELSE 5)
        /\ Range(selection.selected) \subseteq Range(allArticles)

\* C10: in selectTopArticles with a pool of n articles, the number n in the
\* JSON index list (out of the 0-based range, valid as a 1-based index) is
\* coerced down by one and selects article n-1, and an index that is out of
\* range after coercion is dropped.  The first part is stated for an index
\* at a list position that slice(0, count) cannot cut off; the second for a
\* list of integers, of which only those in 0..n can name an article.
C10_OneBasedCoercion ==
    (/\ SelectReturned
     /\ selFn = "top"
     /\ response /= NoValue
     /\ response.json = "object"
     /\ indexField(response).kind = "list") =>
        LET n == Len(allArticles)
            items == indexField(response).items
        IN  /\ \A p \in DOMAIN items :
                  (items[p] = Num(n) /\ p <= count) =>
                      allArticles[n] \in Range(selection.selected)
            /\ (selection.reasoning = "json" /\ \A p \in DOMAIN items : items[p].t = "num") =>
                  Len(selection.selected)
                      <= Cardinality({p \in DOMAIN items : items[p].v \in 0..n})

\* The JSON tier of selectTopArticles yields no usable index: no JSON object,
\* a substring that does not parse, or a parsed object without a valid index.
NoUsableJsonIndex ==
    \/ response.json \in {"none", "invalid"}
    \/ /\ response.json = "object"
       /\ \/ indexField(response).kind = "notarray"
          \/ Len(topJsonSelected(allArticles, count, indexField(response).items)) = 0

\* The bare integers of the response text that are in 1..n, in text order.
OneBasedNumbers ==
    SelectSeq(textNumbers(response), LAMBDA v : v \in 1..Len(allArticles))

\* C11: in selectTopArticles, when the JSON tier yields no usable index and
\* the response text holds a bare integer in 1..n, the selection is the
\* articles named by the first count such integers read as 1-based indices.
C11_NumbersTier ==
    (/\ SelectReturned
     /\ selFn = "top"
     /\ response /= NoValue
     /\ NoUsableJsonIndex
     /\ Len(OneBasedNumbers) > 0) =>
        LET first == SliceTo(OneBasedNumbers, count)
        IN  selection.selected = [j \in 1..Len(first) |-> allArticles[first[j]]]

\* The position of an article in allArticles (the pool's articles are distinct).
positionOf(a) == CHOOSE i \in DOMAIN allArticles : allArticles[i] = a

\* Article a is ahead of article b in descending word-count order, equal word
\* counts in input order.
aheadByWordCount(a, b) ==
    \/ a.wordCount > b.wordCount
    \/ a.wordCount = b.wordCount /\ positionOf(a) < positionOf(b)

\* The response text holds no JSON object and no integer.
NoJsonNoInteger ==
    /\ SelectReturned
    /\ response /= NoValue
    /\ response.json = "none"
    /\ Len(response.pre) = 0

\* C12: for a response with no JSON object and no integer, selectTopArticles
\* (and selectBestOfWeek with count 5) returns min(count, n) distinct articles
\* of allArticles, the ones with the largest word counts, in descending
\* word-count order with equal word counts in input order.
C12_WordCountFallback ==
    NoJsonNoInteger =>
        LET c == IF selFn = "top" THEN count ELSE 5
            sel == selection.selected
        IN  /\ Len(sel) = Min(c, Len(allArticles))
            /\ Range(sel) \subseteq Range(allArticles)
            /\ \A i, j \in DOMAIN sel : i < j => aheadByWordCount(sel[i], sel[j])
            /\ \A a \in Range(allArticles) \ Range(sel) :
                  \A b \in Range(sel) : aheadByWordCount(b, a)

\* C12 witness: the fallback cut a pool in which an unselected article has
\* the word count of a selected one.
C12_Witness ==
    /\ NoJsonNoInteger
    /\ Len(selection.selected) < Len(allArticles)
    /\ \E a \in Range(allArticles) \ Range(selection.selected) :
          \E b \in Range(selection.selected) : a.wordCount = b.wordCount

(***************************************************************************)
(* Properties of getCurationStrategy, checked under SpecStrategy.          *)
(***************************************************************************)

\* The strategy name and keep-count the call returned, as a pair.
strategyPair == <<strategyOut.strategy, strategyOut.keepFull>>

\* C13: getCurationStrategy maps c >= 30 to heavy (keepFull 2, synthesize),
\* 10..29 to moderate (keepFull 4, synthesize), 3..9 to light (keepFull c-1,
\* no synthesis) and c < 3 to passthrough (no synthesis); the boundaries 2, 3,
\* 9, 10, 29, 30 give passthrough, light 2, light 8, moderate 4, moderate 4,
\* heavy 2.
C13_CurationStrategy ==
    strategyOut /= NoValue =>
        LET c == strategyCount
        IN  /\ c >= 30 => /\ strategyPair = <<"heavy", 2>>
                          /\ strategyOut.synthesize
            /\ (c >= 10 /\ c <= 29) => /\ strategyPair = <<"moderate", 4>>
                                       /\ strategyOut.synthesize
            /\ (c >= 3 /\ c <= 9) => /\ strategyPair = <<"light", c - 1>>
                                     /\ ~strategyOut.synthesize
            /\ c < 3 => /\ strategyOut.strategy = "passthrough"
                        /\ ~strategyOut.synthesize
            /\ c = 2 => strategyOut.strategy = "passthrough"
            /\ c = 3 => strategyPair = <<"light", 2>>
            /\ c = 9 => strategyPair = <<"light", 8>>
            /\ c = 10 => strategyPair = <<"moderate", 4>>
            /\ c = 29 => strategyPair = <<"moderate", 4>>
            /\ c = 30 => strategyPair = <<"heavy", 2>>

\* C13 witness: the call returned for the boundary 30.
C13_Witness == strategyCount = 30 /\ strategyOut /= NoValue

(***************************************************************************)
(* Properties of the curation and summary loops, checked under Spec.       *)
(***************************************************************************)

\* The submissions of function fn for the cluster at position idx, in order.
requestsOf(fn, idx) == SelectSeq(requests, LAMBDA r : r.fn = fn /\ r.idx = idx)

\* One withRetry(fn, 3, 2000) call: one to three submissions of one prompt,
\* the 2nd after 2000 ms and the 3rd after 4000 ms, none after a success.
oneRetriedRequest(reqs) ==
    /\ Len(reqs) <= 3
    /\ \A t \in DOMAIN reqs :
          /\ reqs[t].prompt = reqs[1].prompt
          /\ reqs[t].attempt = t
          /\ reqs[t].waited = <<0, 2000, 4000>>[t]
          /\ reqs[t].ok => t = Len(reqs)

\* The call for these submissions failed in every attempt.
allAttemptsFailed(reqs) == Len(reqs) = 3 /\ \A t \in DOMAIN reqs : ~reqs[t].ok

\* C14: curateMainCluster issues no request for a cluster of fewer than 3
\* articles and returns strategy passthrough; otherwise it submits one and
\* the same prompt 1 to 3 times (after 2 s, then 4 s), stops at the first
\* success and makes no other request for the cluster.
C14_MainClusterRequests ==
    variant = "curate" =>
        \A i \in DOMAIN mainClusters :
            LET reqs == requestsOf("curateMainCluster", i)
                curated == i <= Len(clusterSummaries)
            IN  IF Len(mainClusters[i].articles) < 3
                THEN /\ Len(reqs) = 0
                     /\ curated => clusterSummaries[i].strategy = "passthrough"
                ELSE /\ oneRetriedRequest(reqs)
                     /\ \A t \in DOMAIN reqs :
                           reqs[t].prompt = mainClusterPrompt(mainClusters[i],
                                                              mainClusters[i].label)
                     /\ curated => /\ Len(reqs) >= 1
                                   /\ reqs[Len(reqs)].ok
                                   /\ clusterSummaries[i].strategy /= "passthrough"

\* C14 witness: a cluster was curated at the third submission of its prompt
\* and a cluster of fewer than 3 articles was handed through.
C14_Witness ==
    /\ variant = "curate"
    /\ \E i \in DOMAIN mainClusters :
          /\ Len(requestsOf("curateMainCluster", i)) = 3
          /\ requestsOf("curateMainCluster", i)[3].ok
    /\ \E i \in DOMAIN mainClusters :
          /\ i <= Len(clusterSummaries)
          /\ Len(mainClusters[i].articles) < 3

\* C15: in the older run, when the generation call of a main cluster fails
\* in all 3 attempts the run ends with an error naming that cluster's label,
\* no later cluster is curated, and writeDigest and publishToNotion are not
\* invoked.
C15_MainFailureFatal ==
    variant = "curate" =>
        \A i \in DOMAIN mainClusters :
            allAttemptsFailed(requestsOf("curateMainCluster", i)) =>
                /\ pc = "failed"
                /\ runError = [step |-> "curate", label |-> mainClusters[i].label]
                /\ Len(clusterSummaries) = i - 1
                /\ \A p \in DOMAIN requests : requests[p].idx <= i
                /\ curatedMisc = NoValue
                /\ digestCalls = 0
                /\ published = 0

\* C15 witness: the call of a main cluster failed in all attempts while
\* another main cluster was still to be curated.
C15_Witness ==
    /\ variant = "curate"
    /\ \E i \in DOMAIN mainClusters :
          /\ allAttemptsFailed(requestsOf("curateMainCluster", i))
          /\ i < Len(mainClusters)

\* C16: in the run of index.js, when writeClusterSummary fails for a cluster
\* in all 3 attempts the run aborts: no digest is written or published.
C16_SummaryFailureFatal ==
    variant = "summary" =>
        \A i \in DOMAIN clusters :
            allAttemptsFailed(requestsOf("writeClusterSummary", i)) =>
                /\ pc = "failed"
                /\ digestCalls = 0
                /\ published = 0

\* C17: curateMiscCluster issues no request for 0 to 3 articles (the empty
\* result for 0, passthrough for 1 to 3); for 4 or more articles it submits
\* one prompt over all the cluster's articles up to 3 times with strategy
\* misc, and when all attempts fail the run ends with the error.
C17_MiscCluster ==
    /\ curateMiscStrategy(0) = "none"
    /\ \A c \in 1..3 : curateMiscStrategy(c) = "passthrough"
    /\ \A c \in 4..MaxArticleCount : curateMiscStrategy(c) = "misc"
    /\ (variant = "curate" /\ Len(miscClusters) > 0) =>
          LET arts == miscClusters[1].articles
              reqs == requestsOf("curateMiscCluster", Len(mainClusters) + 1)
          IN  /\ oneRetriedRequest(reqs)
              /\ Len(arts) <= 3 =>
                    /\ Len(reqs) = 0
                    /\ curatedMisc /= NoValue =>
                          curatedMisc.strategy = curateMiscStrategy(Len(arts))
              /\ Len(arts) >= 4 =>
                    /\ \A t \in DOMAIN reqs :
                          /\ reqs[t].prompt.ARTICLE_COUNT = Len(arts)
                          /\ promptSubjects(reqs[t].prompt)
                                = [i \in 1..Len(arts) |-> arts[i].key]
                    /\ curatedMisc /= NoValue =>
                          /\ curatedMisc.strategy = "misc"
                          /\ Len(reqs) >= 1
                          /\ reqs[Len(reqs)].ok
                    /\ allAttemptsFailed(reqs) =>
                          /\ pc = "failed"
                          /\ runError.step = "curate-misc"
                          /\ digestCalls = 0
                          /\ published = 0

\* C17 witness: the request over a miscellaneous cluster of four articles
\* failed in all 3 attempts.
C17_Witness ==
    /\ variant = "curate"
    /\ Len(miscClusters) > 0
    /\ Len(miscClusters[1].articles) >= 4
    /\ allAttemptsFailed(requestsOf("curateMiscCluster", Len(mainClusters) + 1))

(***************************************************************************)
(* Properties of withRetry, checked under SpecRetry.                       *)
(***************************************************************************)

\* The number of failed invocations of fn so far.
failedAttempts == Cardinality({t \in DOMAIN fnResults : ~fnResults[t].ok})

\* C18: withRetry with maxRetries >= 1 invokes fn at most maxRetries times,
\* stops at the first success and returns its result, sleeps
\* baseDelay * 2^i after the i-th failed attempt (i from 0) except after the
\* last attempt, and after maxRetries failures raises the last attempt's error.
C18_WithRetry ==
    (retryPc /= "idle" /\ maxRetries >= 1) =>
        /\ Len(fnResults) <= maxRetries
        /\ \A t \in DOMAIN fnResults : fnResults[t].ok => t = Len(fnResults)
        /\ retryPc = "returned" <=>
              (Len(fnResults) > 0 /\ fnResults[Len(fnResults)].ok)
        /\ retryPc = "returned" =>
              retryResult = [returned |-> fnResults[Len(fnResults)].value]
        /\ retryDelays = [i \in 1..Min(failedAttempts, maxRetries - 1) |->
                            baseDelay * (2 ^ (i - 1))]
        /\ retryPc = "raised" =>
              /\ failedAttempts = maxRetries
              /\ retryResult = [raised |-> fnResults[maxRetries].value]

\* C18 witness: a call with maxRetries 3 raised after two sleeps.
C18_Witness ==
    /\ retryPc = "raised"
    /\ maxRetries = 3
    /\ Len(retryDelays) = 2

(***************************************************************************)
(* Properties of generateEmbeddings, checked under SpecEmbed.              *)
(***************************************************************************)

\* The batches (by number) whose submission succeeded, and those that failed
\* in every attempt.
succeededBatches ==
    {embEvents[p].batch : p \in {q \in DOMAIN embEvents : embEvents[q].ok}}

exhaustedBatches ==
    {b \in 1..Len(batches) :
        /\ b \notin succeededBatches
        /\ \E p \in DOMAIN embEvents :
              /\ embEvents[p].kind = "submit"
              /\ embEvents[p].batch = b
              /\ embEvents[p].attempt = MAX_RETRIES}

\* The article ids that the call reports as failed: generateEmbeddings
\* returns the array results alone, so these are the ids printed in the log.
reportedFailedIds == UNION {embLog[p].ids : p \in DOMAIN embLog}

\* C19: when generateEmbeddings returns after one or more batches failed, the
\* id of every article of every failed batch is reported, in the returned
\* value or in the log.
C19_FailedIdsReported ==
    embPc = "returned" =>
        \A b \in exhaustedBatches :
            \A j \in DOMAIN batches[b] : batches[b][j].id \in reportedFailedIds

RECURSIVE resultsOfBatches(_)
\* The pairs of the succeeded batches among the first b, in input order.
resultsOfBatches(b) ==
    IF b = 0 THEN <<>>
    ELSE resultsOfBatches(b - 1)
            \o (IF b \in succeededBatches
                THEN [j \in 1..Len(batches[b]) |->
                        [article |-> batches[b][j],
                         embedding |-> [vectorOf |-> batches[b][j].key]]]
                ELSE <<>>)

\* C20: generateEmbeddings raises exactly when every batch exhausted its
\* retries; with a succeeded batch it returns the embeddings of the succeeded
\* batches, and a failed batch does not stop the batches after it.
C20_RaisesIffAllFailed ==
    embPc \in {"returned", "raised"} =>
        /\ succeededBatches \cup exhaustedBatches = 1..Len(batches)
        /\ embPc = "raised" <=> exhaustedBatches = 1..Len(batches)
        /\ embPc = "returned" =>
              /\ succeededBatches /= {}
              /\ embReturn = [returned |-> resultsOfBatches(Len(batches))]

\* C20 witness: the call returned although its first batch failed.
C20_Witness ==
    /\ embPc = "returned"
    /\ 1 \in exhaustedBatches
    /\ Len(batches) >= 2

\* The positions in embEvents of the events of one kind for batch number b.
eventsOf(kind, b) ==
    {p \in DOMAIN embEvents : embEvents[p].kind = kind /\ embEvents[p].batch = b}

\* C21: generateEmbeddings submits the batches one at a time in input order
\* (no submission of batch b+1 before batch b succeeded or failed its third
\* attempt), and sleeps 200 ms once after every batch but the last, after a
\* succeeded and after a failed batch alike.
C21_SequentialBatches ==
    embPc /= "idle" =>
        /\ \A p, q \in DOMAIN embEvents :
              (p < q /\ embEvents[p].kind = "submit" /\ embEvents[q].kind = "submit")
                  => embEvents[p].batch <= embEvents[q].batch
        /\ \A b \in 1..Len(batches) :
              /\ \A q \in eventsOf("submit", b + 1) :
                    \E p \in eventsOf("submit", b) :
                        /\ p < q
                        /\ embEvents[p].ok \/ embEvents[p].attempt = 3
              /\ b <= batchIndex =>
                    /\ Cardinality(eventsOf("pause", b))
                          = (IF b < Len(batches) THEN 1 ELSE 0)
                    /\ \A p \in eventsOf("pause", b) :
                          /\ embEvents[p].ms = 200
                          /\ \A q \in eventsOf("submit", b) : q < p
                          /\ \A q \in eventsOf("submit", b + 1) : p < q
              /\ b > batchIndex => eventsOf("pause", b) = {}

\* C21 witness: the call is over, its first batch failed in all attempts, its
\* second succeeded, and a third batch followed.
C21_Witness ==
    /\ embPc = "returned"
    /\ Len(batches) = 3
    /\ 1 \in exhaustedBatches
    /\ 2 \in succeededBatches

\* The positions of the clusters of one type in the list clusterArticles
\* returned, and the rank of such a position among them.
positionsOfType(type) ==
    {i \in DOMAIN clusterOut.clusters : clusterOut.clusters[i].type = type}

rankIn(positions, i) == Cardinality({j \in positions : j <= i})

RECURSIVE sizeBefore(_, _)
sizeBefore(positions, i) ==
    IF i <= 1 THEN 0
    ELSE sizeBefore(positions, i - 1)
            + (IF (i - 1) \in positions
               THEN Len(clusterOut.clusters[i - 1].articles) ELSE 0)

\* C22: mergeMiscellaneousClusters returns the main clusters in their order,
\* unchanged, followed (only when some input cluster is miscellaneous) by
\* exactly one miscellaneous cluster that holds the articles of all
\* miscellaneous input clusters, cluster after cluster, each exactly once.
C22_MergeMiscellaneous ==
    mergedOut /= NoValue =>
        LET mains == positionsOfType("main")
            miscs == positionsOfType("miscellaneous")
            total == sizeBefore(miscs, Len(clusterOut.clusters) + 1)
        IN  /\ Len(mergedOut.list)
                  = Cardinality(mains) + (IF miscs = {} THEN 0 ELSE 1)
            /\ \A i \in mains :
                  mergedOut.list[rankIn(mains, i)] = clusterOut.clusters[i]
            /\ miscs /= {} =>
                  LET merged == mergedOut.list[Len(mergedOut.list)]
                  IN  /\ merged.type = "miscellaneous"
                      /\ Len(merged.articles) = total
                      /\ \A i \in miscs :
                            \A j \in DOMAIN clusterOut.clusters[i].articles :
                                merged.articles[sizeBefore(miscs, i) + j]
                                    = clusterOut.clusters[i].articles[j]

\* C22 witness: two miscellaneous clusters were merged behind the main ones.
C22_Witness ==
    /\ mergedOut /= NoValue
    /\ Cardinality(positionsOfType("miscellaneous")) = 2
    /\ Len(mergedOut.list) = MAIN_CLUSTER_THRESHOLD + 1
    /\ Len(mergedOut.list[Len(mergedOut.list)].articles) >= 2

\* C22 witness of the other case: no miscellaneous cluster, nothing added.
C22_WitnessNoMisc ==
    /\ mergedOut /= NoValue
    /\ positionsOfType("miscellaneous") = {}
    /\ Len(mergedOut.list) >= 2

\* C24: clusterArticles treats degenerate input as an edge case and never
\* raises on it: an empty list gives no clusters and no assignments, and a
\* k <= 0 gives, for any list, a result (empty, or one cluster per article
\* at most) and not an error.
C24_DegenerateInput ==
    (clusterOut /= NoValue /\ (Len(embeddedArticles) = 0 \/ k <= 0)) =>
        /\ "raised" \notin DOMAIN clusterOut
        /\ Len(embeddedArticles) = 0 =>
              clusterOut = [clusters |-> <<>>, assignments |-> <<>>]
        /\ Len(clusterOut.clusters) <= Len(embeddedArticles)

(***************************************************************************)
(* Properties of assembleDigest, checked under SpecDigest.                 *)
(***************************************************************************)

\* The positions in the digest of the parts of one kind.
partsOf(kind) == {i \in DOMAIN digestOut : digestOut[i].part = kind}

\* The clusters of the argument that have a non-empty summary and articles.
includedSummaries ==
    {i \in DOMAIN digestSummaries :
        /\ digestSummaries[i].summary \notin {Null, Text(0)}
        /\ digestSummaries[i].articleCount /= 0}

\* The separators after the deep-analysis block, i.e. of the topic section.
topicSeparators ==
    {i \in partsOf("separator") : \A d \in partsOf("deep") : i > d + 1}

\* C23: assembleDigest emits the header, the top-stories listing, the deep
\* analysis, the cluster summaries in input order and the closing section in
\* this order; a cluster with an empty or null summary or with articleCount
\* 0 adds neither content nor separator, so the topic section has as many
\* separators as included clusters, and no two separators are adjacent.
C23_DigestOrder ==
    digestPc = "returned" =>
        /\ partsOf("title") = {1}
        /\ Cardinality(partsOf("deep")) = 1
        /\ partsOf("closing") = {Len(digestOut) - 1, Len(digestOut)}
        /\ \A l \in partsOf("listing") :
              /\ \A h \in partsOf("title") \cup partsOf("dateline") : h < l
              /\ \A d \in partsOf("deep") : l < d
        /\ \A d \in partsOf("deep") :
              /\ digestOut[d].arg = digestDeep
              /\ \A c \in partsOf("summary") : d < c
        /\ \A c \in partsOf("summary"), e \in partsOf("closing") : c < e
        /\ LET written == SelectSeq(digestOut, LAMBDA x : x.part = "summary")
           IN  /\ Len(written) = Cardinality(includedSummaries)
               /\ \A i \in includedSummaries :
                     written[rankIn(includedSummaries, i)].arg
                         = <<digestSummaries[i].summary>>
        /\ Cardinality(topicSeparators) = Cardinality(includedSummaries)
        /\ \A i \in topicSeparators : digestOut[i - 1].part = "summary"
        /\ \A i \in partsOf("separator") : (i + 1) \notin partsOf("separator")

\* C23 witness: a digest with a top-stories listing whose cluster list has
\* an included cluster between a cluster with a null summary and one
\* without articles, and a last cluster with an empty summary.
C23_Witness ==
    /\ digestPc = "returned"
    /\ digestVariant = "part_000"
    /\ partsOf("listing") /= {}
    /\ Len(digestSummaries) = MaxSummaries
    /\ digestSummaries[1].summary = Null
    /\ 2 \in includedSummaries
    /\ digestSummaries[MaxSummaries].summary = Text(0)

(***************************************************************************)
(* Further properties of run, checked under Spec.                          *)
(***************************************************************************)

\* C25: the exclusion of the top articles never changes a cluster that
\* clusterArticles produced: every step of the summary loop leaves the
\* clusters, and so every cluster's articles list, as they were, and the
\* list a step hands to writeClusterSummary is a filtered copy, without the
\* top articles, of the list the cluster still holds.
C25_ClustersNotMutated ==
    [][(pc = "loop" /\ variant = "summary") =>
          /\ clusters' = clusters
          /\ \A p \in (DOMAIN requests') \ (DOMAIN requests) :
                LET r == requests'[p]
                    own == clusters'[r.idx].articles
                IN  r.passed = SelectSeq(own, LAMBDA a :
                        \A i \in DOMAIN topSelection.selected :
                            topSelection.selected[i].id /= a.id)]_vars

\* C25 witness: the loop is over and a summary was requested for a cluster
\* with fewer articles than the cluster itself holds.
C25_Witness ==
    /\ variant = "summary"
    /\ pc = "write"
    /\ \E p \in DOMAIN requests :
          /\ requests[p].fn = "writeClusterSummary"
          /\ Len(requests[p].passed) < Len(clusters[requests[p].idx].articles)

\* C27: an article that is not in topSelection.selected is never removed
\* from the list passed to the summary call of its cluster, two distinct
\* articles with the same id included.
C27_OnlySelectedExcluded ==
    \A p \in DOMAIN requests :
        requests[p].fn = "writeClusterSummary" =>
            \A a \in Range(clusters[requests[p].idx].articles) :
                a \notin Range(topSelection.selected)
                    => a \in Range(requests[p].passed)

\* C29: in every run publishToNotion is invoked at most once, and only
\* after embedding, clustering, selection, all per-cluster calls and the
\* writing of the digest are over; a run that raises at an earlier step
\* publishes nothing, saves the error record and rethrows.
C29_PublishLast ==
    /\ published <= 1
    /\ pc = "done" => published = 1 /\ runError = NoValue
    /\ published > 0 =>
          /\ pc \in {"done", "failed"}
          /\ digestCalls = 1
          /\ topSelection /= NoValue
          /\ clusters /= <<>>
          /\ clusterIdx > (IF variant = "summary" THEN Len(clusters)
                           ELSE Len(mainClusters))
    /\ pc = "failed" =>
          /\ runError /= NoValue
          /\ runError.step /= "publish" => published = 0
    /\ runError /= NoValue => pc = "failed"

\* C29 witness: a run published its digest after per-cluster calls.
C29_Witness ==
    /\ pc = "done"
    /\ published = 1
    /\ Len(requests) >= 2

\* C29 witness of the other case: the digest writer raised, nothing was
\* published and the error is recorded.
C29_WitnessFailed ==
    /\ pc = "failed"
    /\ runError.step = "write"
    /\ published = 0
    /\ Len(requests) >= 1

(***************************************************************************)
(* Further properties of the selection, checked under SpecSelect.          *)
(***************************************************************************)

\* C26: the selected list that selectTopArticles and selectBestOfWeek return
\* never holds the same article twice, whatever the response text is (the
\* same index named twice, or one article named by a 0-based and by a
\* 1-based index, included).
C26_SelectionDistinct ==
    SelectReturned =>
        \A p, q \in DOMAIN selection.selected :
            p /= q => selection.selected[p] /= selection.selected[q]

(***************************************************************************)
(* Further properties of generateEmbeddings, checked under SpecEmbed.      *)
(***************************************************************************)

\* The batch of the input article at position p.
batchOf(p) == ((p - 1) \div BATCH_SIZE) + 1

\* The positions in results of the article at input position p.
resultsAt(p) == {q \in DOMAIN results : results[q].article = embArticles[p]}

\* C28: when generateEmbeddings returns, every input article is in exactly
\* one of results and failed: the articles of the succeeded batches are in
\* results, each once and paired with the vector of its own text, those of
\* the exhausted batches are in failed (by id), and results is in input
\* order.
C28_ResultsAndFailed ==
    embPc = "returned" =>
        /\ Len(results) + Len(failed) = Len(embArticles)
        /\ \A p \in DOMAIN embArticles :
              IF batchOf(p) \in succeededBatches
              THEN /\ Cardinality(resultsAt(p)) = 1
                   /\ \A q \in resultsAt(p) :
                         results[q].embedding.vectorOf = embArticles[p].key
                   /\ embArticles[p].id \notin Range(failed)
              ELSE /\ batchOf(p) \in exhaustedBatches
                   /\ resultsAt(p) = {}
                   /\ Cardinality({q \in DOMAIN failed :
                                      failed[q] = embArticles[p].id}) = 1
        /\ \A p1, p2 \in DOMAIN embArticles :
              \A q1 \in resultsAt(p1), q2 \in resultsAt(p2) :
                  p1 < p2 => q1 < q2

\* C28 witness: the call returned after a batch of several articles
\* succeeded and another batch failed in all attempts.
C28_Witness ==
    /\ embPc = "returned"
    /\ exhaustedBatches /= {}
    /\ \E b \in succeededBatches : Len(batches[b]) >= 2
    /\ Len(failed) >= 2

(***************************************************************************)
(* Properties of splitForNotion, checked under SpecSplit.                  *)
(***************************************************************************)

\* C30: for every text and maxLength, every chunk that splitForNotion
\* produces is at most maxLength characters long, a text without blank or
\* sentence end in its first maxLength characters included.
C30_ChunksWithinLimit ==
    \A c \in DOMAIN chunks : Len(chunks[c]) <= splitMax

====
